---- MODULE Spec2Model ----
(***************************************************************************)
(* Model of the hook-decision engine, the utterance queues, the session    *)
(* registry and the blocking wait protocol of mcp-voice-hooks              *)
(* (src/src/unified-server.ts, src/src/session-manager.ts).                *)
(*                                                                         *)
(* One action per HTTP handler / timer callback.  Node runs one handler    *)
(* turn at a time, so every action is one turn; the only suspension point  *)
(* inside a handler is the sleep of waitForUtteranceCore, which is why a   *)
(* wait is split into its first turn (WaitForUtterances / HookStop) and    *)
(* its later polls (WaitPoll).                                             *)
(*                                                                         *)
(* Strings that the program only compares are TLA+ strings; strings it     *)
(* computes on (paths, hash keys, utterance text) are sequences of         *)
(* character codes.  Dates are integers (clock ticks); a null Date is      *)
(* NoTime.                                                                 *)
(***************************************************************************)
EXTENDS Integers, Sequences, FiniteSets, TLC

\* ------------------------------------------------------------------ bounds
MaxUtterances == 2      \* utterances ever added
MaxSessions == 3        \* sessions in the registry at one time
MaxTime == 3            \* last clock tick (the clock starts at 1)
WaitTimeoutTicks == 2   \* WAIT_TIMEOUT_SECONDS * 1000 ms, in clock ticks
InactivityTicks == 1    \* the sweep's 30 minutes, in clock ticks
MaxClients == 2         \* browser event streams open at one time

NoTime == 0             \* a null Date (lastToolUseTimestamp = null)
NoSession == <<>>       \* activeSessionId = null (as falsy as the empty string)
None == <<>>            \* an absent / empty string field of a request body
CallerTimes == {1}      \* timestamps a caller may put in a request body

WaitIds == {"w1", "w2"} \* the waitForUtteranceCore calls that may be in progress


VARIABLES
  sessions,              \* SessionManager.sessions, in Map insertion order
  activeSessionId,       \* SessionManager.activeSessionId
  queue,                 \* the legacy global UtteranceQueue's utterances
  voiceResponsesEnabled, \* voicePreferences.voiceResponsesEnabled
  voiceInputActive,      \* voicePreferences.voiceInputActive
  lastToolUseTimestamp,
  lastSpeakTimestamp,
  autoDeliver,           \* AUTO_DELIVER_VOICE_INPUT (read once at startup)
  autoDeliverBeforeTools,\* AUTO_DELIVER_VOICE_INPUT_BEFORE_TOOLS
  now,                   \* Date.now()
  nextId,                \* number of ids randomUUID() has handed out
  waits,                 \* the waitForUtteranceCore calls in progress
  last,                  \* the response of the handler that ran last
  emitted,               \* the messages and the sound that turn sent
  ttsClients             \* number of open /api/tts-events streams

vars == <<sessions, activeSessionId, queue, voiceResponsesEnabled,
          voiceInputActive, lastToolUseTimestamp, lastSpeakTimestamp,
          autoDeliver, autoDeliverBeforeTools, now, nextId, waits, last,
          emitted, ttsClients>>

\* ------------------------------------------------------------ strings
\* String.prototype.trim on a sequence of characters.
RECURSIVE TrimStart(_)
TrimStart(s) ==
  IF s # <<>> /\ Head(s) = " " THEN TrimStart(Tail(s)) ELSE s

RECURSIVE TrimEnd(_)
TrimEnd(s) ==
  IF s # <<>> /\ s[Len(s)] = " " THEN TrimEnd(SubSeq(s, 1, Len(s) - 1)) ELSE s

Trim(s) == TrimEnd(TrimStart(s))

Digits36 ==
  <<"0", "1", "2", "3", "4", "5", "6", "7", "8", "9", "a", "b", "c", "d", "e",
    "f", "g", "h", "i", "j", "k", "l", "m", "n", "o", "p", "q", "r", "s", "t",
    "u", "v", "w", "x", "y", "z">>

\* charCodeAt for the characters the model's strings are made of:
\* '0'..'9' are 48..57, 'a'..'z' are 97..122.
CharCode(c) ==
  IF \E i \in 1..36 : Digits36[i] = c
  THEN LET i == CHOOSE j \in 1..36 : Digits36[j] = c
       IN IF i <= 10 THEN 47 + i ELSE 86 + i
  ELSE CASE c = " " -> 32
         [] c = "-" -> 45
         [] c = "." -> 46
         [] c = "/" -> 47
         [] c = ":" -> 58
         [] c = "_" -> 95

\* 32-bit two's-complement arithmetic, done on 16-bit halves so that no
\* intermediate value leaves the checker's integer range.
Lo16(n) == n % 65536
Hi16(n) == (n \div 65536) % 65536
ToInt32(hi, lo) ==
  LET h == (hi + (lo \div 65536)) % 65536
  IN (IF h >= 32768 THEN h - 65536 ELSE h) * 65536 + (lo % 65536)

\* hash << 5 as a signed 32-bit value.
Shl5(hash) ==
  LET low == hash % 134217728
  IN IF low >= 67108864 THEN (low - 134217728) * 32 ELSE low * 32

\* One round of simpleHash: hash = ((hash << 5) - hash) + char; hash & hash.
HashStep(hash, char) ==
  LET a == Shl5(hash)
  IN ToInt32(Hi16(a) - Hi16(hash), Lo16(a) - Lo16(hash) + char)

\* simpleHash's loop over the characters of str, starting from hash.
HashFrom(hash, str) ==
  LET h[i \in 0..Len(str)] ==
        IF i = 0 THEN hash ELSE HashStep(h[i - 1], CharCode(str[i]))
  IN h[Len(str)]

Abs(n) == IF n < 0 THEN 0 - n ELSE n

\* Number.prototype.toString(36) of a natural number.
RECURSIVE ToString36(_)
ToString36(n) ==
  IF n < 36 THEN <<Digits36[n + 1]>>
  ELSE ToString36(n \div 36) \o <<Digits36[(n % 36) + 1]>>

\* simpleHash: `session_${Math.abs(hash).toString(36)}`.
SimpleHash(str) ==
  <<"s", "e", "s", "s", "i", "o", "n", "_">> \o ToString36(Abs(HashFrom(0, str)))

\* Number.prototype.toString() of a natural number (template literal).
RECURSIVE ToString10(_)
ToString10(n) ==
  IF n < 10 THEN <<Digits36[n + 1]>>
  ELSE ToString10(n \div 10) \o <<Digits36[(n % 10) + 1]>>

\* ------------------------------------------------------------ requests
ProcessCwd == <<"/", "s">>                     \* process.cwd()
ClaudeDir == <<"/", ".", "c", "l", "a", "u", "d", "e", "/">>

\* The session hints a request body / its headers can carry.
Requests ==
  { [session_id |-> <<"a">>, cwd |-> None, transcript_path |-> None,
     userAgent |-> <<"c">>],
    [session_id |-> None, cwd |-> None, transcript_path |-> None,
     userAgent |-> <<"c">>],
    [session_id |-> None, cwd |-> <<"/", "p">>, transcript_path |-> None,
     userAgent |-> <<"c">>] }

\* Utterance texts a browser may post (before trimming).
Texts == { <<>>, <<" ">>, <<"x">>, <<" ", "y">> }

\* registerSessionFromRequest builds SessionData from the request.
SessionDataOf(req) ==
  [sessionId |-> req.session_id,
   projectPath |-> None,
   workingDirectory |-> IF req.cwd # None THEN req.cwd ELSE ProcessCwd,
   transcriptPath |-> req.transcript_path,
   userAgent |-> req.userAgent]

\* Index of the first occurrence of sub in s, or 0.
FirstIndexOf(sub, s) ==
  LET hits == {i \in 1..(Len(s) - Len(sub) + 1) :
                 SubSeq(s, i, i + Len(sub) - 1) = sub}
  IN IF hits = {} THEN 0 ELSE CHOOSE i \in hits : \A j \in hits : i <= j

\* transcriptPath.replace(/\/\.claude\/.*$/, '')
StripClaudeDir(path) ==
  LET i == FirstIndexOf(ClaudeDir, path)
  IN IF i = 0 THEN path ELSE SubSeq(path, 1, i - 1)

ExtractProjectPath(sessionData) ==
  IF sessionData.projectPath # None THEN sessionData.projectPath
  ELSE IF sessionData.transcriptPath # None
          /\ StripClaudeDir(sessionData.transcriptPath) # sessionData.transcriptPath
       THEN StripClaudeDir(sessionData.transcriptPath)
       ELSE sessionData.workingDirectory

OrElse(str, fallback) == IF str # None THEN str ELSE fallback

\* generateSessionId's sessionKey, for a request without an explicit id.
SessionKey(sessionData, time) ==
  LET projectPath == ExtractProjectPath(sessionData)
      workingDir == sessionData.workingDirectory
      userAgent == sessionData.userAgent
  IN IF projectPath = None /\ workingDir = None
     THEN <<"s", "e", "s", "s", "i", "o", "n", "_">>
            \o ToString10(time) \o <<":">>
            \o OrElse(userAgent, <<"u", "n", "k", "n", "o", "w", "n">>)
     ELSE OrElse(projectPath, <<"n", "o", "-", "p", "a", "t", "h">>)
            \o <<":">>
            \o OrElse(workingDir,
                      <<"n", "o", "-", "w", "o", "r", "k", "d", "i", "r">>)
            \o <<":">>
            \o OrElse(userAgent,
                      <<"n", "o", "-", "u", "s", "e", "r", "a", "g", "e", "n",
                        "t">>)

\* simpleHash of the keys the model's requests produce, computed once.
HashedKeys == {SessionKey(SessionDataOf(req), NoTime) : req \in Requests}
HashedOnce == [key \in HashedKeys |-> SimpleHash(key)]

HashOfKey(sessionKey) ==
  IF sessionKey \in DOMAIN HashedOnce THEN HashedOnce[sessionKey]
  ELSE SimpleHash(sessionKey)

\* Mutant: the explicit session id is ignored, the hints are hashed.
GenerateSessionId_IgnoresExplicitId(sessionData, time) ==
  HashOfKey(SessionKey(sessionData, time))

GenerateSessionId(sessionData, time) ==
  IF sessionData.sessionId # None THEN sessionData.sessionId
  ELSE HashOfKey(SessionKey(sessionData, time))

\* ------------------------------------------------------------ UtteranceQueue
\* An utterance is [id, text, timestamp, status]; a queue is its
\* `utterances` array.
PendingIn(q) == SelectSeq(q, LAMBDA u : u.status = "pending")
DeliveredIn(q) == SelectSeq(q, LAMBDA u : u.status = "delivered")

HasId(q, id) == \E i \in 1..Len(q) : q[i].id = id

\* Mutant: the utterance is pushed twice.
QueueAdd_Twice(q, id, text, timestamp, time) ==
  q \o [i \in 1..2 |->
          [id |-> id, text |-> Trim(text),
           timestamp |-> IF timestamp # NoTime THEN timestamp ELSE time,
           status |-> "pending"]]

\* UtteranceQueue.add: push {id: randomUUID(), text: text.trim(),
\* timestamp: timestamp || new Date(), status: 'pending'}.
QueueAdd(q, id, text, timestamp, time) ==
  Append(q, [id |-> id, text |-> Trim(text),
             timestamp |-> IF timestamp # NoTime THEN timestamp ELSE time,
             status |-> "pending"])

\* Mutant: marking changes nothing.
MarkDelivered_Nothing(q, id) == q

\* Mutant: a delivered utterance leaves the queue.
MarkDelivered_Removes(q, id) == SelectSeq(q, LAMBDA u : u.id # id)

\* UtteranceQueue.markDelivered: the first utterance with that id, if any,
\* becomes delivered whatever its status was.
MarkDelivered(q, id) ==
  IF ~HasId(q, id) THEN q
  ELSE LET k == CHOOSE i \in 1..Len(q) :
                  q[i].id = id /\ \A j \in 1..(i - 1) : q[j].id # id
       IN [q EXCEPT ![k].status = "delivered"]

\* Mutant: the utterances stay in the order the queues were scanned.
SortNewestFirst_ScanOrder(us) == us

\* Array.prototype.sort is stable: an insertion sort that puts an element
\* behind everything the comparator does not order after it.
RECURSIVE InsertNewestFirst(_, _)
InsertNewestFirst(u, sorted) ==
  IF sorted = <<>> THEN <<u>>
  ELSE IF Head(sorted).timestamp >= u.timestamp
       THEN <<Head(sorted)>> \o InsertNewestFirst(u, Tail(sorted))
       ELSE <<u>> \o sorted

RECURSIVE SortNewestFirstInto(_, _)
SortNewestFirstInto(us, sorted) ==
  IF us = <<>> THEN sorted
  ELSE SortNewestFirstInto(Tail(us), InsertNewestFirst(Head(us), sorted))

\* sort((a, b) => b.timestamp.getTime() - a.timestamp.getTime())
SortNewestFirst(us) == SortNewestFirstInto(us, <<>>)

\* UtteranceQueue.getRecent(limit): the array after the in-place sort, and
\* the slice(0, limit) returned.
GetRecent(q, limit) ==
  [utterances |-> SortNewestFirst(q),
   recent |-> SubSeq(SortNewestFirst(q), 1,
                     IF limit < Len(q) THEN limit ELSE Len(q))]

RECURSIVE InsertOldestFirst(_, _)
InsertOldestFirst(u, sorted) ==
  IF sorted = <<>> THEN <<u>>
  ELSE IF Head(sorted).timestamp <= u.timestamp
       THEN <<Head(sorted)>> \o InsertOldestFirst(u, Tail(sorted))
       ELSE <<u>> \o sorted

RECURSIVE SortOldestFirstInto(_, _)
SortOldestFirstInto(us, sorted) ==
  IF us = <<>> THEN sorted
  ELSE SortOldestFirstInto(Tail(us), InsertOldestFirst(Head(us), sorted))

\* Mutant: the utterances stay in the order the queues were scanned.
SortOldestFirst_ScanOrder(us) == us

\* sort((a, b) => a.timestamp.getTime() - b.timestamp.getTime())
SortOldestFirst(us) == SortOldestFirstInto(us, <<>>)

\* Array.prototype.reverse
RECURSIVE Reverse(_)
Reverse(s) == IF s = <<>> THEN <<>> ELSE Reverse(Tail(s)) \o <<Head(s)>>

\* ------------------------------------------------------------ SessionManager
\* A session is [id, lastActivity, isActive, utteranceQueue]; the registry
\* `ss` is the Map's entries in insertion order.
HasSession(ss, id) == \E i \in 1..Len(ss) : ss[i].id = id

SessionIndex(ss, id) == CHOOSE i \in 1..Len(ss) : ss[i].id = id

RECURSIVE InsertByLastActivity(_, _)
InsertByLastActivity(x, sorted) ==
  IF sorted = <<>> THEN <<x>>
  ELSE IF Head(sorted).lastActivity >= x.lastActivity
       THEN <<Head(sorted)>> \o InsertByLastActivity(x, Tail(sorted))
       ELSE <<x>> \o sorted

RECURSIVE SortByLastActivityInto(_, _)
SortByLastActivityInto(xs, sorted) ==
  IF xs = <<>> THEN sorted
  ELSE SortByLastActivityInto(Tail(xs), InsertByLastActivity(Head(xs), sorted))

\* getAllSessions: the sessions, most recent lastActivity first.
GetAllSessions(ss) == SortByLastActivityInto(ss, <<>>)

\* getActiveSession: the session the pointer names, or undefined.
HasActiveSession(ss, active) == active # NoSession /\ HasSession(ss, active)

\* registerSession once the id is generated: a new session is appended (and
\* becomes the active one if there is none), a known one is refreshed.
RegisterAs(ss, active, sessionId, time) ==
  IF ~HasSession(ss, sessionId)
  THEN [sessions |->
          Append(ss, [id |-> sessionId, lastActivity |-> time,
                      isActive |-> TRUE, utteranceQueue |-> <<>>]),
        activeSessionId |-> IF active = NoSession THEN sessionId ELSE active,
        sessionId |-> sessionId]
  ELSE [sessions |->
          [ss EXCEPT ![SessionIndex(ss, sessionId)].lastActivity = time,
                     ![SessionIndex(ss, sessionId)].isActive = TRUE],
        activeSessionId |-> active,
        sessionId |-> sessionId]

\* The un-primed registry after registerSession(sessionData):
\* [sessions, activeSessionId, sessionId].
RegisterSession(ss, active, sessionData, time) ==
  RegisterAs(ss, active, GenerateSessionId(sessionData, time), time)

\* Mutant: the first session with isActive in Map order is elected.
ElectFrom_FirstRegistered(ss) ==
  LET candidates == SelectSeq(ss, LAMBDA x : x.isActive)
  IN IF candidates # <<>> THEN candidates[1].id ELSE NoSession

\* The sessions with isActive, most recent first: the candidates for the
\* active pointer when the active session goes away.
ElectFrom(ss) ==
  LET candidates == GetAllSessions(SelectSeq(ss, LAMBDA x : x.isActive))
  IN IF candidates # <<>> THEN candidates[1].id ELSE NoSession

\* setActiveSession: [ok, activeSessionId].
SetActiveSession(ss, active, sessionId) ==
  IF ~HasSession(ss, sessionId) \/ ~ss[SessionIndex(ss, sessionId)].isActive
  THEN [ok |-> FALSE, activeSessionId |-> active]
  ELSE [ok |-> TRUE, activeSessionId |-> sessionId]

\* Mutant: the session is marked, the pointer is left where it was.
MarkSessionInactive_KeepsPointer(ss, active, sessionId, time) ==
  IF ~HasSession(ss, sessionId)
  THEN [sessions |-> ss, activeSessionId |-> active]
  ELSE [sessions |->
          [ss EXCEPT ![SessionIndex(ss, sessionId)].isActive = FALSE,
                     ![SessionIndex(ss, sessionId)].lastActivity = time],
        activeSessionId |-> active]

\* markSessionInactive: [sessions, activeSessionId].
MarkSessionInactive(ss, active, sessionId, time) ==
  IF ~HasSession(ss, sessionId)
  THEN [sessions |-> ss, activeSessionId |-> active]
  ELSE LET ss1 == [ss EXCEPT ![SessionIndex(ss, sessionId)].isActive = FALSE,
                             ![SessionIndex(ss, sessionId)].lastActivity = time]
       IN [sessions |-> ss1,
           activeSessionId |->
             IF active = sessionId
             THEN ElectFrom(SelectSeq(ss1, LAMBDA x : x.id # sessionId))
             ELSE active]

\* removeSession: [sessions, activeSessionId].
RemoveSession(ss, active, sessionId) ==
  IF ~HasSession(ss, sessionId)
  THEN [sessions |-> ss, activeSessionId |-> active]
  ELSE LET ss1 == SelectSeq(ss, LAMBDA x : x.id # sessionId)
       IN [sessions |-> ss1,
           activeSessionId |-> IF active = sessionId THEN ElectFrom(ss1) ELSE active]

\* cleanupInactiveSessions: collect the ids first, then removeSession each,
\* in Map order.
RECURSIVE RemoveAll(_, _, _)
RemoveAll(ss, active, ids) ==
  IF ids = <<>> THEN [sessions |-> ss, activeSessionId |-> active]
  ELSE LET r == RemoveSession(ss, active, Head(ids))
       IN RemoveAll(r.sessions, r.activeSessionId, Tail(ids))

SessionsToRemove(ss, time) ==
  SelectSeq(ss, LAMBDA x : ~x.isActive /\ x.lastActivity < time - InactivityTicks)

RECURSIVE IdsOf(_)
IdsOf(xs) == IF xs = <<>> THEN <<>> ELSE <<Head(xs).id>> \o IdsOf(Tail(xs))

CleanupInactiveSessions(ss, active, time) ==
  RemoveAll(ss, active, IdsOf(SessionsToRemove(ss, time)))

\* The notifyChange() calls of removeSession for each of ids in turn: one
\* for every id that names a session.
RECURSIVE RemoveAllNotifications(_, _, _)
RemoveAllNotifications(ss, active, ids) ==
  IF ids = <<>> THEN 0
  ELSE (IF HasSession(ss, Head(ids)) THEN 1 ELSE 0)
         + RemoveAllNotifications(RemoveSession(ss, active, Head(ids)).sessions,
                                  RemoveSession(ss, active, Head(ids)).activeSessionId,
                                  Tail(ids))

\* The notifyChange() calls of one cleanupInactiveSessions: those of its
\* removeSession calls, and its own at the end if it removed any session.
CleanupNotifications(ss, active, time) ==
  RemoveAllNotifications(ss, active, IdsOf(SessionsToRemove(ss, time)))
    + (IF SessionsToRemove(ss, time) # <<>> THEN 1 ELSE 0)

\* ------------------------------------------------------------ all queues
\* The id of the session getActiveSession() returns, or NoSession.
ActiveId(ss, active) == IF HasActiveSession(ss, active) THEN active ELSE NoSession

\* An utterance together with the queue it was read from.
Tagged(us, source, sessionId) ==
  [i \in 1..Len(us) |->
     [id |-> us[i].id, text |-> us[i].text, timestamp |-> us[i].timestamp,
      status |-> us[i].status, source |-> source, sessionId |-> sessionId]]

\* Pending utterances of the active session.
ActivePending(ss, active) ==
  IF HasActiveSession(ss, active)
  THEN Tagged(PendingIn(ss[SessionIndex(ss, active)].utteranceQueue),
              "session", active)
  ELSE <<>>

\* Pending utterances of every session of xs other than the active one.
RECURSIVE OthersPending(_, _)
OthersPending(xs, activeId) ==
  IF xs = <<>> THEN <<>>
  ELSE (IF Head(xs).id # activeId
        THEN Tagged(PendingIn(Head(xs).utteranceQueue), "session", Head(xs).id)
        ELSE <<>>) \o OthersPending(Tail(xs), activeId)

\* Mutant: the global queue is left out of the scan.
AllPendingUtterances_SessionsOnly(ss, active, q) ==
  ActivePending(ss, active)
    \o OthersPending(GetAllSessions(ss), ActiveId(ss, active))

\* Active session first, then the other sessions, then the global queue.
AllPendingUtterances(ss, active, q) ==
  ActivePending(ss, active)
    \o OthersPending(GetAllSessions(ss), ActiveId(ss, active))
    \o Tagged(PendingIn(q), "global", NoSession)

\* dequeueUtterancesCore's forEach: mark each in the queue it came from.
RECURSIVE MarkBySource(_, _, _)
MarkBySource(entries, ss, q) ==
  IF entries = <<>> THEN [sessions |-> ss, queue |-> q]
  ELSE LET e == Head(entries)
       IN IF e.source = "global"
          THEN MarkBySource(Tail(entries), ss, MarkDelivered(q, e.id))
          ELSE IF e.sessionId # None /\ HasSession(ss, e.sessionId)
               THEN MarkBySource(
                      Tail(entries),
                      [ss EXCEPT ![SessionIndex(ss, e.sessionId)].utteranceQueue =
                                   MarkDelivered(@, e.id)],
                      q)
               ELSE MarkBySource(Tail(entries), ss, q)

TextAndTimestamp(us) ==
  [i \in 1..Len(us) |-> [text |-> us[i].text, timestamp |-> us[i].timestamp]]

\* dequeueUtterancesCore: [success, error, utterances, sessions, queue]; the
\* precondition failure carries no utterances.
DequeueUtterancesCore(ss, active, q, inputActive) ==
  IF ~inputActive
  THEN [success |-> FALSE, error |-> "voice-input-not-active",
        sessions |-> ss, queue |-> q]
  ELSE LET sorted == SortNewestFirst(AllPendingUtterances(ss, active, q))
           marked == MarkBySource(sorted, ss, q)
       IN [success |-> TRUE, error |-> "none",
           utterances |-> TextAndTimestamp(sorted),
           sessions |-> marked.sessions, queue |-> marked.queue]

\* waitForUtteranceCore's marking of one found utterance: the active
\* session's queue if it holds the id, else every other session's queue that
\* holds it, else the global queue.
WaitMarkOne(id, ss, active, q) ==
  LET activeId == ActiveId(ss, active)
      inActive == activeId # NoSession
                  /\ HasId(ss[SessionIndex(ss, activeId)].utteranceQueue, id)
      inOther == \E i \in 1..Len(ss) :
                   ss[i].id # activeId /\ HasId(ss[i].utteranceQueue, id)
  IN [sessions |->
        [i \in 1..Len(ss) |->
           IF (inActive /\ ss[i].id = activeId)
              \/ (~inActive /\ ss[i].id # activeId
                  /\ HasId(ss[i].utteranceQueue, id))
           THEN [ss[i] EXCEPT !.utteranceQueue = MarkDelivered(@, id)]
           ELSE ss[i]],
      queue |-> IF ~inActive /\ ~inOther THEN MarkDelivered(q, id) ELSE q]

RECURSIVE WaitMarkAll(_, _, _, _)
WaitMarkAll(us, ss, active, q) ==
  IF us = <<>> THEN [sessions |-> ss, queue |-> q]
  ELSE CHOOSE r \in {WaitMarkAll(Tail(us), m.sessions, active, m.queue) :
                      m \in {WaitMarkOne(Head(us).id, ss, active, q)}} : TRUE

AsDelivered(us) ==
  [i \in 1..Len(us) |->
     [id |-> us[i].id, text |-> us[i].text, timestamp |-> us[i].timestamp,
      status |-> "delivered"]]

\* One iteration of waitForUtteranceCore's loop once voice input was seen
\* active: [found, utterances, count, sessions, queue].
WaitIteration(ss, active, q) ==
  LET pendingUtterances == AllPendingUtterances(ss, active, q)
      sortedUtterances == SortOldestFirst(pendingUtterances)
      marked == WaitMarkAll(sortedUtterances, ss, active, q)
  IN IF Len(pendingUtterances) > 0
     THEN [found |-> TRUE, utterances |-> AsDelivered(sortedUtterances),
           count |-> Len(pendingUtterances),
           sessions |-> marked.sessions, queue |-> marked.queue]
     ELSE [found |-> FALSE, utterances |-> <<>>, count |-> 0,
           sessions |-> ss, queue |-> q]

\* ------------------------------------------------------------ hook engine
NoReason == [kind |-> "none"]

TextsOf(us) == [i \in 1..Len(us) |-> us[i].text]

\* formatVoiceUtterances: the quoted texts in the order given, the count, and
\* getVoiceResponseReminder()'s suffix when voice responses are enabled.
FormatVoiceUtterances(us) ==
  [kind |-> "voice-input", texts |-> TextsOf(us), count |-> Len(us),
   reminder |-> voiceResponsesEnabled]

\* Mutant: a tool use demands a speak whatever was spoken since.
MustSpeakAfterTool_IgnoresSpeak ==
  /\ voiceResponsesEnabled
  /\ lastToolUseTimestamp # NoTime

\* Mutant: a speak made in the same millisecond as the tool use does not count.
MustSpeakAfterTool_NotStrict ==
  /\ voiceResponsesEnabled
  /\ lastToolUseTimestamp # NoTime
  /\ (lastSpeakTimestamp = NoTime \/ lastSpeakTimestamp <= lastToolUseTimestamp)

\* lastToolUseTimestamp && (!lastSpeakTimestamp || lastSpeak < lastToolUse)
MustSpeakAfterTool ==
  /\ voiceResponsesEnabled
  /\ lastToolUseTimestamp # NoTime
  /\ (lastSpeakTimestamp = NoTime \/ lastSpeakTimestamp < lastToolUseTimestamp)

\* Mutant: the verdict loses its reason.
Verdict_WithoutReason(decision, reason, ss, q, toolUse) ==
  [decision |-> decision, reason |-> NoReason, sessions |-> ss, queue |-> q,
   lastToolUseTimestamp |-> toolUse]

Verdict(decision, reason, ss, q, toolUse) ==
  [decision |-> decision, reason |-> reason, sessions |-> ss, queue |-> q,
   lastToolUseTimestamp |-> toolUse]

\* Gate 1 looks at the global queue: voiceInputActive and
\* queue.utterances.filter(u => u.status === 'pending').length > 0.
PendingGateApplies(q) == voiceInputActive /\ Len(PendingIn(q)) > 0

\* Mutants of the tool exemption: never exempt, exempt whatever the toggle.
SkipsAutoDelivery_Never(attemptedAction) == FALSE
SkipsAutoDelivery_AnyTool(attemptedAction) == attemptedAction = "tool"

\* attemptedAction === 'tool' && !AUTO_DELIVER_VOICE_INPUT_BEFORE_TOOLS
SkipsAutoDelivery(attemptedAction) ==
  attemptedAction = "tool" /\ ~autoDeliverBeforeTools

\* Mutant: gate 2 also counts the utterances already responded to.
DeliveredGateApplies_CountsResponded(q) ==
  voiceResponsesEnabled /\ \E i \in 1..Len(q) : q[i].status # "pending"

\* Gate 2 looks at the global queue: voiceResponsesEnabled and
\* queue.utterances.filter(u => u.status === 'delivered').length > 0.
DeliveredGateApplies(q) == voiceResponsesEnabled /\ Len(DeliveredIn(q)) > 0

\* Mutant: only the tool action takes the tool branch.
IsToolAction_ToolOnly(attemptedAction) == attemptedAction = "tool"

\* attemptedAction === 'tool' || attemptedAction === 'post-tool'
IsToolAction(attemptedAction) ==
  attemptedAction = "tool" \/ attemptedAction = "post-tool"

\* Mutant: in manual mode the stop is let through.
StopHandling_ManualApproves(ss, q) ==
  IF voiceInputActive /\ autoDeliver
  THEN Verdict("auto-wait", NoReason, ss, q, lastToolUseTimestamp)
  ELSE Verdict("approve", [kind |-> "no-utterances-since-timeout"],
               ss, q, lastToolUseTimestamp)

\* The stop branch after its must-speak rule: the auto-wait (decision
\* "auto-wait"), the manual-mode block, or the approval when voice input is
\* not active.
StopHandling(ss, q) ==
  IF voiceInputActive
  THEN IF autoDeliver
       THEN Verdict("auto-wait", NoReason, ss, q, lastToolUseTimestamp)
       ELSE Verdict("block", [kind |-> "use-wait"], ss, q,
                    lastToolUseTimestamp)
  ELSE Verdict("approve", [kind |-> "no-utterances-since-timeout"],
               ss, q, lastToolUseTimestamp)

\* handleHookRequest from gate 2 on, up to the point where the stop action
\* starts its auto-wait (decision "auto-wait").
AfterPendingGate(attemptedAction, ss, q) ==
  IF DeliveredGateApplies(q)
  THEN IF attemptedAction = "speak"
       THEN Verdict("approve", NoReason, ss, q, lastToolUseTimestamp)
       ELSE Verdict("block",
                    [kind |-> "respond-first", count |-> Len(DeliveredIn(q))],
                    ss, q, lastToolUseTimestamp)
  ELSE IF IsToolAction(attemptedAction)
  THEN Verdict("approve", NoReason, ss, q, now)
  ELSE IF attemptedAction = "wait"
  THEN IF MustSpeakAfterTool
       THEN Verdict("block", [kind |-> "speak-before-wait"], ss, q,
                    lastToolUseTimestamp)
       ELSE Verdict("approve", NoReason, ss, q, lastToolUseTimestamp)
  ELSE IF attemptedAction = "speak"
  THEN Verdict("approve", NoReason, ss, q, lastToolUseTimestamp)
  ELSE IF attemptedAction = "stop"
  THEN IF MustSpeakAfterTool
       THEN Verdict("block", [kind |-> "speak-before-stop"], ss, q,
                    lastToolUseTimestamp)
       ELSE StopHandling(ss, q)
  ELSE Verdict("approve", NoReason, ss, q, lastToolUseTimestamp)

\* Gate 1 after its call of dequeueUtterancesCore: block with the utterances
\* oldest first, or go on to gate 2.
AfterAutoDequeue(attemptedAction, dequeueResult) ==
  IF dequeueResult.success /\ Len(dequeueResult.utterances) > 0
  THEN Verdict("block",
               FormatVoiceUtterances(Reverse(dequeueResult.utterances)),
               dequeueResult.sessions, dequeueResult.queue,
               lastToolUseTimestamp)
  ELSE AfterPendingGate(attemptedAction, dequeueResult.sessions,
                        dequeueResult.queue)

\* handleHookRequest: the verdict and the state it leaves.
HandleHookRequest(attemptedAction, ss, active, q) ==
  IF PendingGateApplies(q)
  THEN IF autoDeliver
       THEN IF SkipsAutoDelivery(attemptedAction)
            THEN AfterPendingGate(attemptedAction, ss, q)
            ELSE AfterAutoDequeue(
                   attemptedAction,
                   DequeueUtterancesCore(ss, active, q, voiceInputActive))
       ELSE Verdict("block",
                    [kind |-> "use-dequeue", count |-> Len(PendingIn(q))],
                    ss, q, lastToolUseTimestamp)
  ELSE AfterPendingGate(attemptedAction, ss, q)

\* Mutant: whatever the wait returns, the stop is approved.
StopVerdictOf_AlwaysApproves(data) ==
  [decision |-> "approve",
   reason |-> [kind |-> IF data.success THEN "timed-out" ELSE data.error]]

\* The stop hook's conversion of waitForUtteranceCore's result.
StopVerdictOf(data) ==
  IF ~data.success /\ data.error # "none"
  THEN [decision |-> "approve", reason |-> [kind |-> data.error]]
  ELSE IF Len(data.utterances) > 0
  THEN [decision |-> "block", reason |-> FormatVoiceUtterances(data.utterances)]
  ELSE [decision |-> "approve", reason |-> [kind |-> data.message]]

\* ------------------------------------------------------------ wait calls
Idle == [pc |-> "idle", origin |-> "none", startTime |-> NoTime,
         sleptAt |-> NoTime, firstTime |-> FALSE]

\* A call asleep after its first iteration, which has cleared firstTime.
Sleeping(origin, startTime) ==
  [pc |-> "sleeping", origin |-> origin, startTime |-> startTime,
   sleptAt |-> now, firstTime |-> FALSE]

\* The slot a new waitForUtteranceCore call takes.
FreeSlot == CHOOSE w \in WaitIds : waits[w].pc = "idle"

\* Mutant: every wait-status message says the wait is on.
WaitStatus_AlwaysWaiting(isWaiting) ==
  [channel |-> "sse", type |-> "waitStatus", isWaiting |-> TRUE]

\* notifyWaitStatus(isWaiting): the message written to every SSE client.
WaitStatus(isWaiting) ==
  [channel |-> "sse", type |-> "waitStatus", isWaiting |-> isWaiting]

\* notifyTTSClients(text, sessionId, sessionName)
SpeakMessage(text, sessionId) ==
  [channel |-> "sse", type |-> "speak", text |-> text, sessionId |-> sessionId]

\* The pre-speak hook's broadcastAll({ type: 'speak', ...event }) to the
\* WebSocket clients of a primary instance.
SpeakEvent(sessionId) ==
  [channel |-> "ws", type |-> "speak", sessionId |-> sessionId]

\* playNotificationSound(): the sound player the server process starts.
NotificationSound == [channel |-> "exec", type |-> "notification-sound"]

\* Mutant: every iteration that finds nothing plays the sound.
PlaysNotificationSound_EveryIteration(firstTime) == TRUE

\* if (firstTime), in an iteration that found nothing
PlaysNotificationSound(firstTime) == firstTime

\* Mutant: the precondition error carries an empty utterances list.
WaitError_WithList ==
  [success |-> FALSE, error |-> "voice-input-not-active", utterances |-> <<>>]

\* waitForUtteranceCore's results. The precondition failure carries success
\* and error only.
WaitError == [success |-> FALSE, error |-> "voice-input-not-active"]

WaitDeactivated(startTime) ==
  [success |-> TRUE, error |-> "none", utterances |-> <<>>, count |-> 0,
   message |-> "voice-input-deactivated", waitTime |-> now - startTime]

WaitFound(it, startTime) ==
  [success |-> TRUE, error |-> "none", utterances |-> it.utterances,
   count |-> it.count, message |-> "none", waitTime |-> now - startTime]

WaitTimedOut ==
  [success |-> TRUE, error |-> "none", utterances |-> <<>>, count |-> 0,
   message |-> "timed-out", waitTime |-> WaitTimeoutTicks]

\* What a finished wait answers: the HTTP endpoint sends the result, the
\* stop hook sends the verdict made from it.
Response(origin, data) ==
  IF origin = "stop"
  THEN [op |-> "hook", action |-> "stop",
        decision |-> StopVerdictOf(data).decision,
        reason |-> StopVerdictOf(data).reason, via |-> "auto-wait"]
  ELSE [op |-> "wait", result |-> data]

Suspended(origin) == [op |-> "suspended", origin |-> origin]

\* ------------------------------------------------------------ actions
Init ==
  /\ sessions = <<>>
  /\ activeSessionId = NoSession
  /\ queue = <<>>
  /\ voiceResponsesEnabled = FALSE
  /\ voiceInputActive = FALSE
  /\ lastToolUseTimestamp = NoTime
  /\ lastSpeakTimestamp = NoTime
  /\ autoDeliver \in BOOLEAN
  /\ autoDeliverBeforeTools \in BOOLEAN
  /\ now = 1
  /\ nextId = 0
  /\ waits = [w \in WaitIds |-> Idle]
  /\ last = [op |-> "none"]
  /\ emitted = <<>>
  /\ ttsClients = 0

\* Time passes between two handler turns.
Tick ==
  /\ now < MaxTime
  /\ now' = now + 1
  /\ UNCHANGED <<sessions, activeSessionId, queue, voiceResponsesEnabled,
                 voiceInputActive, lastToolUseTimestamp, lastSpeakTimestamp,
                 autoDeliver, autoDeliverBeforeTools, ttsClients, nextId, waits, last,
                 emitted>>

\* POST /api/potential-utterances, the 400 answer: !text || !text.trim().
PotentialUtteranceRejected(text) ==
  /\ Trim(text) = <<>>
  /\ last' = [op |-> "potential-utterances", success |-> FALSE]
  /\ emitted' = <<>>
  /\ UNCHANGED <<sessions, activeSessionId, queue, voiceResponsesEnabled,
                 voiceInputActive, lastToolUseTimestamp, lastSpeakTimestamp,
                 autoDeliver, autoDeliverBeforeTools, ttsClients, now, nextId, waits>>

\* POST /api/potential-utterances with a text: resolve the queue, add.
PotentialUtterance(req, text, timestamp) ==
  LET hinted == \/ req.session_id # None
                \/ req.cwd # None
                \/ req.transcript_path # None
  IN \E reg \in {IF hinted
                 THEN RegisterSession(sessions, activeSessionId,
                                      SessionDataOf(req), now)
                 ELSE [sessions |-> sessions,
                       activeSessionId |-> activeSessionId,
                       sessionId |-> NoSession]} :
     \E active1 \in {IF /\ hinted
                        /\ \/ ~HasActiveSession(reg.sessions, reg.activeSessionId)
                           \/ Len(reg.sessions) = 1
                     THEN SetActiveSession(reg.sessions, reg.activeSessionId,
                                           reg.sessionId).activeSessionId
                     ELSE reg.activeSessionId} :
     \E target \in {IF hinted THEN reg.sessionId
                    ELSE ActiveId(reg.sessions, active1)} :
       /\ Trim(text) # <<>>
       /\ nextId < MaxUtterances
       /\ Len(reg.sessions) <= MaxSessions
       /\ nextId' = nextId + 1
       /\ activeSessionId' = active1
       /\ IF target # NoSession
          THEN /\ sessions' =
                    [reg.sessions EXCEPT
                       ![SessionIndex(reg.sessions, target)].utteranceQueue =
                         QueueAdd(@, nextId + 1, text, timestamp, now)]
               /\ queue' = queue
          ELSE /\ sessions' = reg.sessions
               /\ queue' = QueueAdd(queue, nextId + 1, text, timestamp, now)
       /\ last' = [op |-> "potential-utterances", success |-> TRUE,
                   id |-> nextId + 1, sessionId |-> target]
       /\ emitted' = <<>>
       /\ UNCHANGED <<voiceResponsesEnabled, voiceInputActive,
                      lastToolUseTimestamp, lastSpeakTimestamp, autoDeliver,
                      autoDeliverBeforeTools, ttsClients, now, waits>>

\* POST /api/dequeue-utterances
DequeueUtterances ==
  \E result \in {DequeueUtterancesCore(sessions, activeSessionId, queue,
                                       voiceInputActive)} :
     /\ sessions' = result.sessions
     /\ queue' = result.queue
     /\ last' = IF result.success
                THEN [op |-> "dequeue", success |-> TRUE, error |-> "none",
                      utterances |-> result.utterances]
                ELSE [op |-> "dequeue", success |-> FALSE,
                      error |-> result.error]
     /\ emitted' = <<>>
     /\ UNCHANGED <<activeSessionId, voiceResponsesEnabled, voiceInputActive,
                    lastToolUseTimestamp, lastSpeakTimestamp, autoDeliver,
                    autoDeliverBeforeTools, ttsClients, now, nextId, waits>>

\* waitForUtteranceCore from its call to its first suspension or return:
\* the precondition, then the first loop iteration.
EnterWait(origin, ss, active, q) ==
  \E it \in {WaitIteration(ss, active, q)} :
     IF ~voiceInputActive
     THEN /\ sessions' = ss
          /\ queue' = q
          /\ waits' = waits
          /\ last' = Response(origin, WaitError)
          /\ emitted' = <<>>
     ELSE IF it.found
     THEN /\ sessions' = it.sessions
          /\ queue' = it.queue
          /\ waits' = waits
          /\ last' = Response(origin, WaitFound(it, now))
          /\ emitted' = <<WaitStatus(TRUE), WaitStatus(FALSE)>>
     ELSE /\ \E w \in WaitIds : waits[w].pc = "idle"
          /\ sessions' = ss
          /\ queue' = q
          /\ waits' = [waits EXCEPT ![FreeSlot] = Sleeping(origin, now)]
          /\ last' = Suspended(origin)
          /\ emitted' = IF PlaysNotificationSound(TRUE)
                        THEN <<WaitStatus(TRUE), NotificationSound>>
                        ELSE <<WaitStatus(TRUE)>>

\* POST /api/wait-for-utterances, first turn.
WaitForUtterances ==
  /\ EnterWait("http", sessions, activeSessionId, queue)
  /\ UNCHANGED <<activeSessionId, voiceResponsesEnabled, voiceInputActive,
                 lastToolUseTimestamp, lastSpeakTimestamp, autoDeliver,
                 autoDeliverBeforeTools, ttsClients, now, nextId>>

\* Mutant: the loop condition never fails.
WaitLoopContinues_Always(call) == TRUE

\* while (Date.now() - startTime < maxWaitMs)
WaitLoopContinues(call) == now - call.startTime < WaitTimeoutTicks

\* Mutant: the loop never looks at the voice-input state.
SeesVoiceInputInactive_Never == FALSE

\* if (!voicePreferences.voiceInputActive), inside the loop
SeesVoiceInputInactive == ~voiceInputActive

\* A sleeping waitForUtteranceCore call wakes: the loop condition, the
\* voice-input check, the scan of all queues.
WaitPoll(w) ==
  /\ waits[w].pc = "sleeping"
  /\ now > waits[w].sleptAt
  /\ \E call \in {waits[w]}, it \in {WaitIteration(sessions, activeSessionId, queue)} :
     /\ IF ~WaitLoopContinues(call)
        THEN /\ waits' = [waits EXCEPT ![w] = Idle]
             /\ last' = Response(call.origin, WaitTimedOut)
             /\ emitted' = <<WaitStatus(FALSE)>>
             /\ UNCHANGED <<sessions, queue>>
        ELSE IF SeesVoiceInputInactive
        THEN /\ waits' = [waits EXCEPT ![w] = Idle]
             /\ last' = Response(call.origin, WaitDeactivated(call.startTime))
             /\ emitted' = <<WaitStatus(FALSE)>>
             /\ UNCHANGED <<sessions, queue>>
        ELSE IF it.found
        THEN /\ waits' = [waits EXCEPT ![w] = Idle]
             /\ last' = Response(call.origin, WaitFound(it, call.startTime))
             /\ emitted' = <<WaitStatus(FALSE)>>
             /\ sessions' = it.sessions
             /\ queue' = it.queue
        ELSE /\ waits' = [waits EXCEPT ![w].sleptAt = now,
                                       ![w].firstTime = FALSE]
             /\ last' = Suspended(call.origin)
             /\ emitted' = IF PlaysNotificationSound(call.firstTime)
                           THEN <<NotificationSound>>
                           ELSE <<>>
             /\ UNCHANGED <<sessions, queue>>
     /\ UNCHANGED <<activeSessionId, voiceResponsesEnabled, voiceInputActive,
                    lastToolUseTimestamp, lastSpeakTimestamp, autoDeliver,
                    autoDeliverBeforeTools, ttsClients, now, nextId>>

\* The stop hook's catch clause: waitForUtteranceCore's promise rejects while
\* the stop hook awaits it, and the hook fails open.
StopVerdictOnError ==
  [decision |-> "approve", reason |-> [kind |-> "auto-wait-error"]]

StopWaitThrows(w) ==
  /\ waits[w].pc = "sleeping"
  /\ waits[w].origin = "stop"
  /\ waits' = [waits EXCEPT ![w] = Idle]
  /\ last' = [op |-> "hook", action |-> "stop",
              decision |-> StopVerdictOnError.decision,
              reason |-> StopVerdictOnError.reason, via |-> "auto-wait"]
  /\ emitted' = <<>>
  /\ UNCHANGED <<sessions, activeSessionId, queue, voiceResponsesEnabled,
                 voiceInputActive, lastToolUseTimestamp, lastSpeakTimestamp,
                 autoDeliver, autoDeliverBeforeTools, ttsClients, now, nextId>>

\* A hook endpoint: registerSessionFromRequest, then handleHookRequest; the
\* stop action may go on into waitForUtteranceCore.
HookRequest(attemptedAction, req) ==
  \E reg \in {RegisterSession(sessions, activeSessionId, SessionDataOf(req), now)} :
  \E v \in {HandleHookRequest(attemptedAction, reg.sessions,
                              reg.activeSessionId, queue)} :
     /\ Len(reg.sessions) <= MaxSessions
     /\ activeSessionId' = reg.activeSessionId
     /\ lastToolUseTimestamp' = v.lastToolUseTimestamp
     /\ IF v.decision = "auto-wait"
        THEN EnterWait("stop", v.sessions, reg.activeSessionId, v.queue)
        ELSE /\ sessions' = v.sessions
             /\ queue' = v.queue
             /\ waits' = waits
             /\ last' = [op |-> "hook", action |-> attemptedAction,
                         decision |-> v.decision, reason |-> v.reason,
                         via |-> "gates"]
             /\ emitted' = IF attemptedAction = "speak"
                           THEN <<SpeakEvent(reg.sessionId)>>
                           ELSE <<>>
     /\ UNCHANGED <<voiceResponsesEnabled, voiceInputActive,
                    lastSpeakTimestamp, autoDeliver, autoDeliverBeforeTools, ttsClients,
                    now, nextId>>

HookPreTool(req) == HookRequest("tool", req)     \* POST /api/hooks/pre-tool
HookPreSpeak(req) == HookRequest("speak", req)   \* POST /api/hooks/pre-speak
HookPreWait(req) == HookRequest("wait", req)     \* POST /api/hooks/pre-wait
HookPostTool(req) == HookRequest("post-tool", req) \* POST /api/hooks/post-tool
HookStop(req) == HookRequest("stop", req)        \* POST /api/hooks/stop

\* POST /api/voice-preferences
SetVoicePreferences(enabled) ==
  /\ voiceResponsesEnabled' = enabled
  /\ last' = [op |-> "voice-preferences"]
  /\ emitted' = <<>>
  /\ UNCHANGED <<sessions, activeSessionId, queue, voiceInputActive,
                 lastToolUseTimestamp, lastSpeakTimestamp, autoDeliver,
                 autoDeliverBeforeTools, ttsClients, now, nextId, waits>>

\* POST /api/voice-input-state
SetVoiceInputState(active) ==
  /\ voiceInputActive' = active
  /\ last' = [op |-> "voice-input-state"]
  /\ emitted' = <<>>
  /\ UNCHANGED <<sessions, activeSessionId, queue, voiceResponsesEnabled,
                 lastToolUseTimestamp, lastSpeakTimestamp, autoDeliver,
                 autoDeliverBeforeTools, ttsClients, now, nextId, waits>>

\* GET /api/tts-events: a browser opens its event stream.
ConnectTtsClient ==
  /\ ttsClients < MaxClients
  /\ ttsClients' = ttsClients + 1
  /\ last' = [op |-> "tts-events", remaining |-> ttsClients']
  /\ emitted' = <<>>
  /\ UNCHANGED <<sessions, activeSessionId, queue, voiceResponsesEnabled,
                 voiceInputActive, lastToolUseTimestamp, lastSpeakTimestamp,
                 autoDeliver, autoDeliverBeforeTools, now, nextId, waits>>

\* Mutant: closing the last stream leaves the voice features as they are.
DisconnectTtsClient_KeepsPreferences ==
  /\ ttsClients > 0
  /\ ttsClients' = ttsClients - 1
  /\ last' = [op |-> "tts-close", remaining |-> ttsClients',
              disabled |-> FALSE]
  /\ emitted' = <<>>
  /\ UNCHANGED <<sessions, activeSessionId, queue, voiceResponsesEnabled,
                 voiceInputActive, lastToolUseTimestamp, lastSpeakTimestamp,
                 autoDeliver, autoDeliverBeforeTools, now, nextId, waits>>

\* The 'close' callback of an event stream: when no stream remains, both
\* voice features are switched off.
DisconnectTtsClient ==
  /\ ttsClients > 0
  /\ ttsClients' = ttsClients - 1
  /\ IF ttsClients' = 0
     THEN /\ voiceInputActive' = FALSE
          /\ voiceResponsesEnabled' = FALSE
     ELSE UNCHANGED <<voiceInputActive, voiceResponsesEnabled>>
  /\ last' = [op |-> "tts-close", remaining |-> ttsClients',
              disabled |-> ttsClients' = 0
                             /\ (voiceInputActive \/ voiceResponsesEnabled)]
  /\ emitted' = <<>>
  /\ UNCHANGED <<sessions, activeSessionId, queue, lastToolUseTimestamp,
                 lastSpeakTimestamp, autoDeliver, autoDeliverBeforeTools, now,
                 nextId, waits>>


\* UtteranceQueue.getRecent on the global queue: Array.prototype.sort sorts
\* the queue's own array in place, slice copies its head.
QueueGetRecent(limit) ==
  /\ queue' = GetRecent(queue, limit).utterances
  /\ last' = [op |-> "get-recent", recent |-> GetRecent(queue, limit).recent]
  /\ emitted' = <<>>
  /\ UNCHANGED <<sessions, activeSessionId, voiceResponsesEnabled,
                 voiceInputActive, lastToolUseTimestamp, lastSpeakTimestamp,
                 autoDeliver, autoDeliverBeforeTools, ttsClients, now, nextId,
                 waits>>

\* The session a speak is attributed to: the active session if it holds a
\* delivered utterance, else the first session of getAllSessions that does,
\* else 'global' if the global queue does, else undefined.
SpeakingSessionId ==
  LET holders == SelectSeq(GetAllSessions(sessions),
                           LAMBDA x : Len(DeliveredIn(x.utteranceQueue)) > 0)
  IN IF HasActiveSession(sessions, activeSessionId)
        /\ Len(DeliveredIn(sessions[SessionIndex(sessions, activeSessionId)]
                             .utteranceQueue)) > 0
     THEN activeSessionId
     ELSE IF holders # <<>> THEN holders[1].id
     ELSE IF Len(DeliveredIn(queue)) > 0 THEN <<"g", "l", "o", "b", "a", "l">>
     ELSE None

\* Mutant: the text is tested for emptiness without trimming.
SpeakRefused_Untrimmed(text) == text = <<>> \/ ~voiceResponsesEnabled

\* if (!text || !text.trim()) ... if (!voicePreferences.voiceResponsesEnabled)
SpeakRefused(text) == Trim(text) = <<>> \/ ~voiceResponsesEnabled

\* Mutant: a speak leaves the delivered utterances as they are.
MarkDeliveredResponded_Nothing(q) == q

\* Mutant: a speak marks the pending utterances as responded too.
MarkDeliveredResponded_AlsoPending(q) ==
  [i \in 1..Len(q) |-> [q[i] EXCEPT !.status = "responded"]]

\* queue.utterances.filter(u => u.status === 'delivered').forEach(u =>
\* u.status = 'responded')
MarkDeliveredResponded(q) ==
  [i \in 1..Len(q) |->
     IF q[i].status = "delivered"
     THEN [q[i] EXCEPT !.status = "responded"]
     ELSE q[i]]

\* POST /api/speak, a 400 answer: no text, or voice responses disabled.
SpeakRejected(text) ==
  /\ SpeakRefused(text)
  /\ last' = [op |-> "speak", success |-> FALSE]
  /\ emitted' = <<>>
  /\ UNCHANGED <<sessions, activeSessionId, queue, voiceResponsesEnabled,
                 voiceInputActive, lastToolUseTimestamp, lastSpeakTimestamp,
                 autoDeliver, autoDeliverBeforeTools, ttsClients, now, nextId, waits>>

\* POST /api/speak: the global queue's delivered utterances become
\* responded, lastSpeakTimestamp = new Date().
Speak(text) ==
  /\ ~SpeakRefused(text)
  /\ queue' = MarkDeliveredResponded(queue)
  /\ lastSpeakTimestamp' = now
  /\ last' = [op |-> "speak", success |-> TRUE,
              respondedCount |-> Len(DeliveredIn(queue)),
              sessionId |-> SpeakingSessionId]
  /\ emitted' = <<SpeakMessage(text, SpeakingSessionId)>>
  /\ UNCHANGED <<sessions, activeSessionId, voiceResponsesEnabled,
                 voiceInputActive, lastToolUseTimestamp, autoDeliver,
                 autoDeliverBeforeTools, ttsClients, now, nextId, waits>>

\* DELETE /api/utterances: queue.clear().
DeleteUtterances ==
  /\ queue' = <<>>
  /\ last' = [op |-> "delete-utterances", clearedCount |-> Len(queue)]
  /\ emitted' = <<>>
  /\ UNCHANGED <<sessions, activeSessionId, voiceResponsesEnabled,
                 voiceInputActive, lastToolUseTimestamp, lastSpeakTimestamp,
                 autoDeliver, autoDeliverBeforeTools, ttsClients, now, nextId, waits>>

\* The session ids a caller of the sessions API may name: the registered
\* ones and one that is not.
CallerIds == {sessions[i].id : i \in 1..Len(sessions)} \cup {<<"z">>}

\* POST /api/sessions/:sessionId/activate
ActivateSession(sessionId) ==
  \E r \in {SetActiveSession(sessions, activeSessionId, sessionId)} :
     /\ activeSessionId' = r.activeSessionId
     /\ last' = [op |-> "activate", success |-> r.ok]
     /\ emitted' = <<>>
     /\ UNCHANGED <<sessions, queue, voiceResponsesEnabled, voiceInputActive,
                    lastToolUseTimestamp, lastSpeakTimestamp, autoDeliver,
                    autoDeliverBeforeTools, ttsClients, now, nextId, waits>>

\* DELETE /api/sessions/:sessionId
DeleteSession(sessionId) ==
  \E r \in {RemoveSession(sessions, activeSessionId, sessionId)} :
     /\ sessions' = r.sessions
     /\ activeSessionId' = r.activeSessionId
     /\ last' = [op |-> "delete-session",
                 success |-> HasSession(sessions, sessionId)]
     /\ emitted' = <<>>
     /\ UNCHANGED <<queue, voiceResponsesEnabled, voiceInputActive,
                    lastToolUseTimestamp, lastSpeakTimestamp, autoDeliver,
                    autoDeliverBeforeTools, ttsClients, now, nextId, waits>>

\* POST /api/sessions/:sessionId/utterances/clear
ClearSessionUtterances(sessionId) ==
  /\ sessions' = IF HasSession(sessions, sessionId)
                 THEN [sessions EXCEPT
                         ![SessionIndex(sessions, sessionId)].utteranceQueue = <<>>]
                 ELSE sessions
  /\ last' = [op |-> "clear-session", success |-> HasSession(sessions, sessionId)]
  /\ emitted' = <<>>
  /\ UNCHANGED <<activeSessionId, queue, voiceResponsesEnabled,
                 voiceInputActive, lastToolUseTimestamp, lastSpeakTimestamp,
                 autoDeliver, autoDeliverBeforeTools, ttsClients, now, nextId, waits>>

\* SessionManager.markSessionInactive, called on the registry.
DeactivateSession(sessionId) ==
  \E r \in {MarkSessionInactive(sessions, activeSessionId, sessionId, now)} :
     /\ sessions' = r.sessions
     /\ activeSessionId' = r.activeSessionId
     /\ last' = [op |-> "mark-inactive", sessionId |-> sessionId]
     /\ emitted' = <<>>
     /\ UNCHANGED <<queue, voiceResponsesEnabled, voiceInputActive,
                    lastToolUseTimestamp, lastSpeakTimestamp, autoDeliver,
                    autoDeliverBeforeTools, ttsClients, now, nextId, waits>>

\* The registry's setInterval callback: cleanupInactiveSessions.
Sweep ==
  \E r \in {CleanupInactiveSessions(sessions, activeSessionId, now)} :
     /\ sessions' = r.sessions
     /\ activeSessionId' = r.activeSessionId
     /\ last' = [op |-> "sweep",
                 removed |-> Len(SessionsToRemove(sessions, now)),
                 notifications |->
                   CleanupNotifications(sessions, activeSessionId, now)]
     /\ emitted' = <<>>
     /\ UNCHANGED <<queue, voiceResponsesEnabled, voiceInputActive,
                    lastToolUseTimestamp, lastSpeakTimestamp, autoDeliver,
                    autoDeliverBeforeTools, ttsClients, now, nextId, waits>>

Next ==
  \/ Tick
  \/ \E text \in Texts : PotentialUtteranceRejected(text)
  \/ \E req \in Requests, text \in Texts, timestamp \in CallerTimes \cup {NoTime} :
       PotentialUtterance(req, text, timestamp)
  \/ DequeueUtterances
  \/ WaitForUtterances
  \/ \E w \in WaitIds : WaitPoll(w)
  \/ \E req \in Requests : HookPreTool(req)
  \/ \E req \in Requests : HookPreSpeak(req)
  \/ \E req \in Requests : HookPreWait(req)
  \/ \E req \in Requests : HookPostTool(req)
  \/ \E req \in Requests : HookStop(req)
  \/ \E w \in WaitIds : StopWaitThrows(w)
  \/ \E enabled \in BOOLEAN : SetVoicePreferences(enabled)
  \/ \E active \in BOOLEAN : SetVoiceInputState(active)
  \/ \E text \in Texts : SpeakRejected(text)
  \/ \E text \in Texts : Speak(text)
  \/ DeleteUtterances
  \/ \E sessionId \in CallerIds : ActivateSession(sessionId)
  \/ \E sessionId \in CallerIds : DeleteSession(sessionId)
  \/ \E sessionId \in CallerIds : ClearSessionUtterances(sessionId)
  \/ \E sessionId \in CallerIds : DeactivateSession(sessionId)
  \/ Sweep
  \/ ConnectTtsClient
  \/ DisconnectTtsClient

Spec == Init /\ [][Next]_vars

\* ------------------------------------------------------------ environments
\* The full system above, driven by narrower environments: each keeps the
\* handlers whole and only limits which requests arrive.
ExplicitRequest == CHOOSE req \in Requests : req.session_id # None
BareRequest == CHOOSE req \in Requests : req.session_id = None /\ req.cwd = None
CwdRequest == CHOOSE req \in Requests : req.cwd # None

\* The browser's first utterance says "x"; the n-th one after it says a
\* blank followed by n times "y", so that no two utterances say the same.
TextNo(n) == IF n = 0 THEN <<"x">> ELSE <<" ">> \o [i \in 1..n |-> "y"]

SleepingCalls(ws) == {w \in WaitIds : ws[w].pc = "sleeping"}

\* One assistant session and a browser: the hook endpoints, the voice
\* toggles, speak and dequeue; at most one wait at a time, and one clock
\* tick less than the other environments see.
NextHooks ==
  \/ Tick /\ now' < MaxTime
  \/ \E req \in {ExplicitRequest, BareRequest} :
       PotentialUtterance(req, TextNo(nextId), NoTime)
  \/ DequeueUtterances
  \/ \E w \in WaitIds : WaitPoll(w)
  \/ HookPreTool(ExplicitRequest)
  \/ HookPreSpeak(ExplicitRequest)
  \/ HookPreWait(ExplicitRequest)
  \/ HookPostTool(ExplicitRequest)
  \/ HookStop(ExplicitRequest) /\ Cardinality(SleepingCalls(waits')) <= 1
  \/ \E w \in WaitIds : StopWaitThrows(w)
  \/ \E enabled \in BOOLEAN : SetVoicePreferences(enabled)
  \/ \E active \in BOOLEAN : SetVoiceInputState(active)
  \/ Speak(<<"x">>)

SpecHooks == Init /\ [][NextHooks]_vars

\* Utterances into two session queues and the global queue, dequeues and
\* waits (one sleeping at a time), voice input switched on and off, the
\* active session switched.
NextWait ==
  \/ Tick
  \/ \E req \in Requests, timestamp \in CallerTimes \cup {NoTime} :
       PotentialUtterance(req, TextNo(nextId), timestamp)
  \/ DequeueUtterances
  \/ WaitForUtterances /\ Cardinality(SleepingCalls(waits')) <= 1
  \/ \E w \in WaitIds : WaitPoll(w)
  \/ \E active \in BOOLEAN : SetVoiceInputState(active)
  \/ \E sessionId \in CallerIds : ActivateSession(sessionId)

SpecWait == Init /\ [][NextWait]_vars

\* Waits that have room to run to their timeout before the clock's last
\* tick. The event loop runs every due timer and the clock advances: weak
\* fairness of each sleeping call's poll and of the clock.
NextWaitLive ==
  \/ Tick
  \/ \E req \in {ExplicitRequest, BareRequest} :
       PotentialUtterance(req, TextNo(nextId), NoTime)
  \/ /\ now + WaitTimeoutTicks <= MaxTime
     /\ WaitForUtterances
     /\ Cardinality(SleepingCalls(waits')) <= 1
  \/ \E w \in WaitIds : WaitPoll(w)
  \/ \E active \in BOOLEAN : SetVoiceInputState(active)

SpecWaitLive ==
  /\ Init
  /\ [][NextWaitLive]_vars
  /\ WF_vars(Tick)
  /\ \A w \in WaitIds : WF_vars(WaitPoll(w))

\* Speaking: utterances reach the global queue and a session's queue and
\* are dequeued, a tool is used, and speak requests arrive with every text,
\* with voice responses on and off.
NextSpeak ==
  \/ Tick /\ now' < MaxTime
  \/ \E req \in {ExplicitRequest, BareRequest} :
       PotentialUtterance(req, TextNo(nextId), NoTime)
  \/ DequeueUtterances
  \/ HookPreTool(ExplicitRequest)
  \/ \E enabled \in BOOLEAN : SetVoicePreferences(enabled)
  \/ \E active \in BOOLEAN : SetVoiceInputState(active)
  \/ \E text \in Texts : SpeakRejected(text)
  \/ \E text \in Texts : Speak(text)

SpecSpeak == Init /\ [][NextSpeak]_vars

\* The browser's side: event streams opened and closed and the voice
\* toggles set, while one assistant session's hooks, dequeues, waits and
\* speaks run.
NextPrefs ==
  \/ Tick /\ now' < MaxTime
  \/ PotentialUtterance(ExplicitRequest, TextNo(nextId), NoTime)
  \/ DequeueUtterances
  \/ WaitForUtterances /\ Cardinality(SleepingCalls(waits')) <= 1
  \/ \E w \in WaitIds : WaitPoll(w)
  \/ HookPreTool(ExplicitRequest)
  \/ HookPreSpeak(ExplicitRequest)
  \/ HookPreWait(ExplicitRequest)
  \/ HookPostTool(ExplicitRequest)
  \/ HookStop(ExplicitRequest) /\ Cardinality(SleepingCalls(waits')) <= 1
  \/ \E enabled \in BOOLEAN : SetVoicePreferences(enabled)
  \/ \E active \in BOOLEAN : SetVoiceInputState(active)
  \/ Speak(<<"x">>)
  \/ ConnectTtsClient
  \/ DisconnectTtsClient

SpecPrefs == Init /\ [][NextPrefs]_vars

\* The global queue as an object of its own: no session is ever registered,
\* so every utterance goes to the global queue, with the server's clock or
\* with a timestamp of the caller's; getRecent is called on it with limits
\* 1 and 2.
NextQueue ==
  \/ Tick
  \/ \E timestamp \in CallerTimes \cup {NoTime} :
       PotentialUtterance(BareRequest, TextNo(nextId), timestamp)
  \/ \E limit \in 1..MaxUtterances : QueueGetRecent(limit)
  \/ \E active \in BOOLEAN : SetVoiceInputState(active)
  \/ DequeueUtterances

SpecQueue == Init /\ [][NextQueue]_vars

\* Calls in flight together: up to two waits asleep at once, started by the
\* wait endpoint and by the stop hook, while utterances arrive, dequeues and
\* auto-delivering hooks run and voice input is switched.
NextConcurrent ==
  \/ Tick
  \/ \E req \in {ExplicitRequest, BareRequest} :
       PotentialUtterance(req, TextNo(nextId), NoTime)
  \/ DequeueUtterances
  \/ WaitForUtterances
  \/ \E w \in WaitIds : WaitPoll(w)
  \/ HookPreWait(ExplicitRequest)
  \/ HookStop(ExplicitRequest)
  \/ \E active \in BOOLEAN : SetVoiceInputState(active)

SpecConcurrent == Init /\ [][NextConcurrent]_vars

\* The stores: utterances added to session queues and to the global queue,
\* dequeued, and cleared; sessions deleted, marked inactive and swept.
NextStore ==
  \/ Tick
  \/ \E text \in Texts : PotentialUtteranceRejected(text)
  \/ \E req \in Requests : PotentialUtterance(req, TextNo(nextId), NoTime)
  \/ \E active \in BOOLEAN : SetVoiceInputState(active)
  \/ DequeueUtterances
  \/ DeleteUtterances
  \/ \E sessionId \in CallerIds : ClearSessionUtterances(sessionId)
  \/ \E sessionId \in CallerIds : DeleteSession(sessionId)
  \/ \E sessionId \in CallerIds : DeactivateSession(sessionId)
  \/ Sweep

SpecStore == Init /\ [][NextStore]_vars

\* The registry's life: sessions registered by hooks and utterances,
\* activated, marked inactive, removed and swept; one session less at a
\* time than the election environment below sees.
NextRegistry ==
  \/ Tick
  \/ (\E req \in Requests : HookPreSpeak(req)) /\ Len(sessions') < MaxSessions
  \/ /\ PotentialUtterance(ExplicitRequest, TextNo(nextId), NoTime)
     /\ Len(sessions') < MaxSessions
  \/ \E sessionId \in CallerIds : ActivateSession(sessionId)
  \/ \E sessionId \in CallerIds : DeleteSession(sessionId)
  \/ \E sessionId \in CallerIds : DeactivateSession(sessionId)
  \/ Sweep

SpecRegistry == Init /\ [][NextRegistry]_vars

\* The election of the active session: up to three sessions registered by
\* hooks at different times, activated, marked inactive and removed.
NextElect ==
  \/ Tick
  \/ \E req \in Requests : HookPreSpeak(req)
  \/ \E sessionId \in CallerIds : ActivateSession(sessionId)
  \/ \E sessionId \in CallerIds : DeleteSession(sessionId)
  \/ \E sessionId \in CallerIds : DeactivateSession(sessionId)

SpecElect == Init /\ [][NextElect]_vars

\* ------------------------------------------------------------ observations
\* Every utterance of every queue, with the queue that owns it.
Owned(ss, q) ==
  {[owner |-> <<"global">>, utterance |-> q[i]] : i \in 1..Len(q)}
    \cup UNION {{[owner |-> ss[k].id, utterance |-> ss[k].utteranceQueue[i]] :
                   i \in 1..Len(ss[k].utteranceQueue)} : k \in 1..Len(ss)}

OwnedWith(ss, q, status) == {o \in Owned(ss, q) : o.utterance.status = status}

AnyPending(ss, q) == OwnedWith(ss, q, "pending") # {}
AnyDelivered(ss, q) == OwnedWith(ss, q, "delivered") # {}

\* o's utterance, with the given status, in the same queue.
Moved(o, status) ==
  [owner |-> o.owner, utterance |-> [o.utterance EXCEPT !.status = status]]

TextsIn(texts) == {texts[i] : i \in 1..Len(texts)}

\* The block reasons of the pending-utterance gate.
PendingGateReasons == {"voice-input", "use-dequeue"}

\* ------------------------------------------------------------ claims
\* C1: with voice input active and auto-delivery enabled, a pre-speak,
\* pre-wait or post-tool attempt made while any queue (session or global)
\* holds a pending utterance returns block, and afterwards no queue holds a
\* pending utterance.
C1_PendingGateBlocksAndDelivers ==
  [][\A req \in Requests, action \in {"speak", "wait", "post-tool"} :
       (/\ voiceInputActive
        /\ autoDeliver
        /\ AnyPending(sessions, queue)
        /\ HookRequest(action, req))
       => (/\ last'.op = "hook"
           /\ last'.decision = "block"
           /\ ~AnyPending(sessions', queue'))]_vars

PendingGateDue(action) ==
  /\ voiceInputActive
  /\ AnyPending(sessions, queue)
  /\ ~(autoDeliver /\ action = "tool" /\ ~autoDeliverBeforeTools)

\* C3: with voice responses enabled and gate 1 not firing, if any queue
\* (session or global) holds a delivered utterance, pre-speak is approved and
\* every other action is blocked.
C3_DeliveredGateAnyQueue ==
  [][\A req \in Requests,
        action \in {"tool", "speak", "wait", "stop", "post-tool"} :
       (/\ voiceResponsesEnabled
        /\ ~PendingGateDue(action)
        /\ AnyDelivered(sessions, queue)
        /\ HookRequest(action, req))
       => (/\ last'.op = "hook"
           /\ last'.decision = IF action = "speak" THEN "approve" ELSE "block")]_vars

\* C4: with voice input active and auto-delivery enabled, a stop attempt made
\* while any queue holds a pending utterance returns block with a message
\* quoting the text of every pending utterance, and all of them are delivered
\* afterwards, whatever voiceResponsesEnabled and the timestamps are.
C4_StopDeliversEveryPending ==
  [][\A req \in Requests :
       (/\ voiceInputActive
        /\ autoDeliver
        /\ AnyPending(sessions, queue)
        /\ HookStop(req))
       => (/\ last'.op = "hook"
           /\ last'.decision = "block"
           /\ last'.reason.kind = "voice-input"
           /\ \A o \in OwnedWith(sessions, queue, "pending") :
                /\ o.utterance.text \in TextsIn(last'.reason.texts)
                /\ Moved(o, "delivered") \in Owned(sessions', queue'))]_vars

\* C5: with voice input active, auto-delivery enabled, auto-deliver-before-
\* tools disabled, at least one pending utterance and no delivered utterance,
\* a tool-invocation attempt returns approve and leaves every pending
\* utterance pending.
C5_ToolApprovedPendingKept ==
  [][\A req \in Requests :
       (/\ voiceInputActive
        /\ autoDeliver
        /\ ~autoDeliverBeforeTools
        /\ AnyPending(sessions, queue)
        /\ ~AnyDelivered(sessions, queue)
        /\ HookPreTool(req))
       => (/\ last'.op = "hook"
           /\ last'.decision = "approve"
           /\ OwnedWith(sessions, queue, "pending")
                \subseteq OwnedWith(sessions', queue', "pending"))]_vars

C5_Witness ==
  /\ last.op = "hook"
  /\ last.action = "tool"
  /\ last.decision = "approve"
  /\ voiceInputActive
  /\ autoDeliver
  /\ ~autoDeliverBeforeTools
  /\ Len(PendingIn(queue)) > 0
  /\ ~AnyDelivered(sessions, queue)

\* C6: with voice input active and auto-delivery disabled, every action
\* attempted while any queue holds a pending utterance returns block with a
\* reason naming the dequeue capability, and changes no utterance's status.
C6_ManualModeAlwaysBlocks ==
  [][\A req \in Requests,
        action \in {"tool", "speak", "wait", "stop", "post-tool"} :
       (/\ voiceInputActive
        /\ ~autoDeliver
        /\ AnyPending(sessions, queue)
        /\ HookRequest(action, req))
       => (/\ last'.op = "hook"
           /\ last'.decision = "block"
           /\ last'.reason.kind = "use-dequeue"
           /\ Owned(sessions', queue') = Owned(sessions, queue))]_vars

\* C7: immediately after a successful dequeue no session queue and not the
\* global queue holds a pending utterance, and every utterance that was
\* pending at the call is delivered in the queue that owns it.
C7_DequeueExhaustive ==
  [][(DequeueUtterances /\ last'.success)
       => (/\ ~AnyPending(sessions', queue')
           /\ \A o \in OwnedWith(sessions, queue, "pending") :
                Moved(o, "delivered") \in Owned(sessions', queue'))]_vars

C7_Witness ==
  /\ last.op = "dequeue"
  /\ last.success
  /\ Len(last.utterances) > 1
  /\ Len(DeliveredIn(queue)) > 0
  /\ \E k \in 1..Len(sessions) : Len(DeliveredIn(sessions[k].utteranceQueue)) > 0

\* C8: the active-session pointer is null or names a session that is in the
\* registry and has isActive = TRUE, after any sequence of registerSession,
\* setActiveSession, markSessionInactive, removeSession and sweep calls.
C8_ActiveSessionInvariant ==
  \/ activeSessionId = NoSession
  \/ /\ HasSession(sessions, activeSessionId)
     /\ sessions[SessionIndex(sessions, activeSessionId)].isActive

\* markSessionInactive was just called on a session that is still in the
\* registry, and the pointer names another session.
C8_Witness ==
  /\ last.op = "mark-inactive"
  /\ HasSession(sessions, last.sessionId)
  /\ ~sessions[SessionIndex(sessions, last.sessionId)].isActive
  /\ activeSessionId # NoSession
  /\ activeSessionId # last.sessionId

\* What C9 says of a poll's answer, given the utterances pending before it.
FoundAll(result, pendingBefore) ==
  /\ result.success
  /\ result.count = Len(result.utterances)
  /\ Len(result.utterances) = Cardinality(pendingBefore)
  /\ {result.utterances[i].id : i \in 1..Len(result.utterances)}
       = {o.utterance.id : o \in pendingBefore}
  /\ \A i, j \in 1..Len(result.utterances) :
       i < j => result.utterances[i].timestamp <= result.utterances[j].timestamp
  /\ \A i \in 1..Len(result.utterances) :
       result.utterances[i].status = "delivered"

\* C9: a waitForUtterance call in progress with voice input active returns at
\* the first poll at which any queue holds a pending utterance: success, every
\* utterance pending at that poll, oldest first, each delivered in the queue
\* that owns it, count equal to the number returned.
C9_WaitReturnsAllPending ==
  [][\A w \in WaitIds :
       (/\ voiceInputActive
        /\ AnyPending(sessions, queue)
        /\ waits[w].pc = "sleeping"
        /\ waits[w].origin = "http"
        /\ WaitLoopContinues(waits[w])
        /\ WaitPoll(w))
       => (/\ last'.op = "wait"
           /\ waits'[w].pc = "idle"
           /\ FoundAll(last'.result, OwnedWith(sessions, queue, "pending"))
           /\ \A o \in OwnedWith(sessions, queue, "pending") :
                Moved(o, "delivered") \in Owned(sessions', queue'))]_vars

\* A wait that slept answers with utterances of a session queue and of the
\* global queue.
C9_Witness ==
  /\ last.op = "wait"
  /\ last.result.success
  /\ last.result.waitTime > 0
  /\ Len(last.result.utterances) > 1
  /\ Len(DeliveredIn(queue)) > 0
  /\ \E k \in 1..Len(sessions) : Len(DeliveredIn(sessions[k].utteranceQueue)) > 0

\* C10: if voice input has become inactive while a waitForUtterance call is
\* polling, the call returns at its next poll with success true and an empty
\* utterance list and marks nothing delivered, even if pending utterances
\* exist at that poll.
C10_WaitEndsOnDeactivation ==
  [][\A w \in WaitIds :
       (/\ ~voiceInputActive
        /\ waits[w].pc = "sleeping"
        /\ waits[w].origin = "http"
        /\ WaitPoll(w))
       => (/\ last'.op = "wait"
           /\ waits'[w].pc = "idle"
           /\ last'.result.success
           /\ last'.result.utterances = <<>>
           /\ Owned(sessions', queue') = Owned(sessions, queue))]_vars

C10_Witness ==
  /\ last.op = "wait"
  /\ last.result.success
  /\ last.result.message = "voice-input-deactivated"
  /\ last.result.utterances = <<>>
  /\ ~voiceInputActive
  /\ AnyPending(sessions, queue)

\* C11: every waitForUtterance call eventually returns; a call that returns
\* has found utterances, seen voice input inactive or timed out; and at a
\* poll with voice input active and nothing pending the call sleeps on while
\* its timeout has not elapsed and returns success, no utterances and the
\* timeout message once it has.
C11_WaitTerminates ==
  /\ \A w \in WaitIds : (waits[w].pc = "sleeping") ~> (waits[w].pc = "idle")
  /\ [][\A w \in WaitIds :
          (waits[w].pc = "sleeping" /\ waits[w].origin = "http" /\ WaitPoll(w))
          => /\ waits'[w].pc = "idle"
                => /\ last'.op = "wait"
                   /\ last'.result.success
                   /\ \/ Len(last'.result.utterances) > 0
                      \/ last'.result.message
                           \in {"voice-input-deactivated", "timed-out"}
             /\ (voiceInputActive /\ ~AnyPending(sessions, queue))
                => IF now - waits[w].startTime < WaitTimeoutTicks
                   THEN waits'[w].pc = "sleeping"
                   ELSE /\ waits'[w].pc = "idle"
                        /\ last'.result.success
                        /\ last'.result.utterances = <<>>
                        /\ last'.result.message = "timed-out"]_vars

\* A call that slept through its whole timeout has just returned.
C11_Witness ==
  /\ last.op = "wait"
  /\ last.result.success
  /\ last.result.utterances = <<>>
  /\ last.result.message = "timed-out"
  /\ last.result.waitTime = WaitTimeoutTicks
  /\ voiceInputActive
  /\ \A w \in WaitIds : waits[w].pc = "idle"

\* The isWaiting flags of the wait-status messages among msgs, in order.
IsWaitStatus(m) == m.type = "waitStatus"

WaitStatusFlags(msgs) ==
  [i \in 1..Len(SelectSeq(msgs, IsWaitStatus)) |->
     SelectSeq(msgs, IsWaitStatus)[i].isWaiting]

\* C12: a wait call that passes its precondition emits wait-status true
\* before it polls and wait-status false when it returns: a turn that leaves
\* a call sleeping emits exactly one true, the turn in which a sleeping call
\* returns emits exactly one false, a call that finds utterances in its first
\* turn emits true then false, the precondition error emits neither, and no
\* other turn emits a wait-status message at all.
C12_WaitStatusBracketsWait ==
  [][now' = now =>
       \E flags \in {WaitStatusFlags(emitted')} :
          /\ \A w \in WaitIds :
               /\ (waits[w].pc = "idle" /\ waits'[w].pc = "sleeping")
                    => flags = <<TRUE>>
               /\ (waits[w].pc = "sleeping" /\ waits'[w].pc = "idle")
                    => /\ flags = <<FALSE>>
                       /\ WaitPoll(w)
               /\ (waits[w].pc = "sleeping" /\ waits'[w].pc = "sleeping")
                    => \/ WaitPoll(w) /\ flags = <<>>
                       \/ waits'[w] = waits[w]
          /\ (\A w \in WaitIds : waits'[w].pc = waits[w].pc)
               => /\ flags \in {<<>>, <<TRUE, FALSE>>}
                  /\ flags = <<TRUE, FALSE>>
                       => /\ last'.op = "wait"
                          /\ last'.result.success
                          /\ Len(last'.result.utterances) > 0
          /\ WaitForUtterances
               => IF voiceInputActive
                  THEN /\ flags # <<>>
                       /\ flags[1] = TRUE
                  ELSE /\ flags = <<>>
                       /\ last'.result = WaitError]_vars

C12_Witness ==
  /\ emitted = <<WaitStatus(FALSE)>>
  /\ last.op = "wait"
  /\ last.result.success
  /\ last.result.utterances # <<>>
  /\ \A w \in WaitIds : waits[w].pc = "idle"

\* C13: with voice input not active, the dequeue operation and the wait
\* operation both return at once with a failure: success false, an error
\* message, no utterances list; no utterance changes status, no call is
\* left waiting and nothing is emitted.
C13_InactiveVoiceInputFails ==
  [][~voiceInputActive =>
       /\ DequeueUtterances
            => /\ last'.op = "dequeue"
               /\ ~last'.success
               /\ last'.error = "voice-input-not-active"
               /\ "utterances" \notin DOMAIN last'
               /\ sessions' = sessions
               /\ queue' = queue
               /\ emitted' = <<>>
       /\ WaitForUtterances
            => /\ last'.op = "wait"
               /\ ~last'.result.success
               /\ last'.result.error = "voice-input-not-active"
               /\ "utterances" \notin DOMAIN last'.result
               /\ sessions' = sessions
               /\ queue' = queue
               /\ waits' = waits
               /\ emitted' = <<>>]_vars

C13_Witness ==
  /\ ~voiceInputActive
  /\ last.op = "wait"
  /\ ~last.result.success
  /\ AnyPending(sessions, queue)

\* C14: a successful speak call turns every delivered utterance of the
\* legacy global queue into a responded one and changes nothing else in any
\* queue (pending utterances stay pending), sets the last-speak timestamp to
\* the current time, and emits one speak notification carrying the text and
\* the attributed session.
C14_SpeakMarksGlobalDelivered ==
  [][\A text \in Texts :
       Speak(text)
         => /\ Len(queue') = Len(queue)
            /\ \A i \in 1..Len(queue) :
                 IF queue[i].status = "delivered"
                 THEN queue'[i] = [queue[i] EXCEPT !.status = "responded"]
                 ELSE queue'[i] = queue[i]
            /\ \A o \in OwnedWith(sessions, queue, "pending") :
                 o \in OwnedWith(sessions', queue', "pending")
            /\ lastSpeakTimestamp' = now
            /\ last'.op = "speak"
            /\ last'.success
            /\ last'.respondedCount = Len(DeliveredIn(queue))
            /\ emitted' = <<SpeakMessage(text, SpeakingSessionId)>>
            /\ emitted'[1].type = "speak"]_vars

C14_Witness ==
  /\ last.op = "speak"
  /\ last.success
  /\ last.respondedCount > 0
  /\ lastSpeakTimestamp = now
  /\ \E i \in 1..Len(queue) : queue[i].status = "responded"
  /\ AnyPending(sessions, queue)

\* C15: a speak request made with voice responses disabled, or with a text
\* that is empty after trimming, fails, and the failed request changes no
\* utterance status, leaves the last-speak timestamp alone and emits no
\* notification.
C15_RefusedSpeakChangesNothing ==
  [][\A text \in Texts :
       ((Trim(text) = <<>> \/ ~voiceResponsesEnabled)
          /\ (Speak(text) \/ SpeakRejected(text)))
         => /\ last'.op = "speak"
            /\ ~last'.success
            /\ sessions' = sessions
            /\ queue' = queue
            /\ lastSpeakTimestamp' = lastSpeakTimestamp
            /\ emitted' = <<>>]_vars

C15_Witness ==
  /\ last.op = "speak"
  /\ ~last.success
  /\ voiceResponsesEnabled
  /\ AnyDelivered(sessions, queue)

\* Gates 1 and 2 of handleHookRequest let the action through: gate 1 finds
\* voice input off or no pending utterance in the global queue, or skips a
\* tool action; gate 2 finds voice responses off or no delivered utterance
\* in the global queue.
GatesPass(action) ==
  /\ \/ ~voiceInputActive
     \/ Len(PendingIn(queue)) = 0
     \/ (autoDeliver /\ action = "tool" /\ ~autoDeliverBeforeTools)
  /\ ~voiceResponsesEnabled \/ Len(DeliveredIn(queue)) = 0

\* C16: once gates 1 and 2 let it through, a pre-wait attempt is blocked
\* exactly when voice responses are enabled, a tool use is recorded, and no
\* speak is recorded or the last speak is strictly older than the last tool
\* use; otherwise it is approved. A stop attempt applies the same rule
\* first: when the rule holds it is blocked at once, no wait is started and
\* nothing else happens; when it does not hold, the stop is not blocked for
\* that reason.
C16_MustSpeakAfterToolRule ==
  [][\A req \in {ExplicitRequest} :
       \E rule \in {/\ voiceResponsesEnabled
                    /\ lastToolUseTimestamp # NoTime
                    /\ \/ lastSpeakTimestamp = NoTime
                       \/ lastSpeakTimestamp < lastToolUseTimestamp} :
          /\ (GatesPass("wait") /\ HookPreWait(req))
               => /\ last'.op = "hook"
                  /\ last'.decision = IF rule THEN "block" ELSE "approve"
                  /\ rule => last'.reason.kind = "speak-before-wait"
                  /\ queue' = queue
                  /\ waits' = waits
          /\ (GatesPass("stop") /\ HookStop(req))
               => IF rule
                  THEN /\ last'.op = "hook"
                       /\ last'.decision = "block"
                       /\ last'.reason.kind = "speak-before-stop"
                       /\ last'.via = "gates"
                       /\ queue' = queue
                       /\ waits' = waits
                       /\ emitted' = <<>>
                  ELSE last'.op = "hook"
                         => last'.reason.kind # "speak-before-stop"]_vars

C16_Witness ==
  /\ last.op = "hook"
  /\ last.action = "wait"
  /\ last.decision = "block"
  /\ last.reason.kind = "speak-before-wait"
  /\ lastSpeakTimestamp # NoTime
  /\ lastSpeakTimestamp < lastToolUseTimestamp

\* C17, as stated: once gates 1 and 2 let it through, a tool or post-tool
\* attempt is approved; the tool attempt records the current time as
\* last-tool-use and the post-tool attempt leaves that timestamp unchanged.
C17_PostToolKeepsLastToolUse ==
  [][\A req \in {ExplicitRequest} :
       /\ (GatesPass("tool") /\ HookPreTool(req))
            => /\ last'.op = "hook"
               /\ last'.decision = "approve"
               /\ lastToolUseTimestamp' = now
       /\ (GatesPass("post-tool") /\ HookPostTool(req))
            => /\ last'.op = "hook"
               /\ last'.decision = "approve"
               /\ lastToolUseTimestamp' = lastToolUseTimestamp]_vars

\* C17, amended: once gates 1 and 2 let it through, a tool or post-tool
\* attempt is approved without a reason, and either of them records the
\* current time as last-tool-use; no queue changes and no wait is started.
C17_ToolAndPostToolRecordToolUse ==
  [][\A req \in {ExplicitRequest}, action \in {"tool", "post-tool"} :
       (GatesPass(action) /\ HookRequest(action, req))
         => /\ last'.op = "hook"
            /\ last'.action = action
            /\ last'.decision = "approve"
            /\ last'.reason = NoReason
            /\ lastToolUseTimestamp' = now
            /\ queue' = queue
            /\ waits' = waits]_vars

C17_Witness ==
  /\ last.op = "hook"
  /\ last.action = "post-tool"
  /\ last.decision = "approve"
  /\ lastToolUseTimestamp = now
  /\ now > 1

\* C18: with voice input active and auto-delivery disabled a stop attempt is
\* never approved: it is blocked by the pending gate, the delivered gate,
\* the must-speak rule or the instruction to use the wait capability, and no
\* wait is started. With voice input not active, a stop attempt that gate 2
\* and the must-speak rule let through is approved.
C18_StopInManualMode ==
  [][\A req \in {ExplicitRequest} :
       HookStop(req)
         => /\ (voiceInputActive /\ ~autoDeliver)
                 => /\ last'.op = "hook"
                    /\ last'.action = "stop"
                    /\ last'.decision = "block"
                    /\ last'.reason.kind \in {"use-dequeue", "respond-first",
                                              "speak-before-stop", "use-wait"}
                    /\ waits' = waits
            /\ (/\ ~voiceInputActive
                /\ ~voiceResponsesEnabled \/ Len(DeliveredIn(queue)) = 0
                /\ ~MustSpeakAfterTool)
                 => /\ last'.op = "hook"
                    /\ last'.action = "stop"
                    /\ last'.decision = "approve"
                    /\ last'.reason.kind = "no-utterances-since-timeout"
                    /\ waits' = waits]_vars

C18_Witness ==
  /\ voiceInputActive
  /\ ~autoDeliver
  /\ last.op = "hook"
  /\ last.action = "stop"
  /\ last.decision = "block"
  /\ last.reason.kind = "use-wait"
  /\ AnyPending(sessions, queue)

\* The pending utterances a step turned into delivered ones.
DeliveredByStep ==
  {o \in OwnedWith(sessions, queue, "pending") :
     o \notin OwnedWith(sessions', queue', "pending")}

C20_VerdictWellFormed ==
  last.op = "hook"
    => /\ last.action \in {"tool", "speak", "wait", "stop", "post-tool"}
       /\ last.decision \in {"approve", "block"}
       /\ last.decision = "block"
            => /\ last.reason # NoReason
               /\ last.reason.kind \in {"voice-input", "use-dequeue",
                                        "respond-first", "speak-before-wait",
                                        "speak-before-stop", "use-wait"}
               /\ last.reason.kind = "voice-input"
                    => /\ last.reason.count > 0
                       /\ Len(last.reason.texts) = last.reason.count
               /\ last.reason.kind \in {"use-dequeue", "respond-first"}
                    => last.reason.count > 0

C20_Witness ==
  /\ last.op = "hook"
  /\ last.action = "post-tool"
  /\ last.decision = "block"
  /\ last.reason.kind = "respond-first"

\* The step is a dequeue or a wait: the dequeue endpoint, the wait endpoint
\* or a poll of a waiting call, or a hook whose verdict quotes the
\* utterances its own dequeue or wait delivered.
DequeueOrWaitStep ==
  \/ DequeueUtterances
  \/ WaitForUtterances
  \/ \E w \in WaitIds : WaitPoll(w)
  \/ /\ \E action \in {"tool", "speak", "wait", "stop", "post-tool"} :
          HookRequest(action, ExplicitRequest)
     /\ last'.op = "hook"
     /\ last'.reason.kind = "voice-input"

\* C21: over add, dequeue, wait, hook and speak operations an utterance's
\* status only moves forward: a new utterance is pending; a pending one
\* becomes delivered only in a dequeue or wait step, made with voice input
\* active; a delivered one becomes responded only in a speak step; no
\* utterance goes from pending to responded in one step or returns to an
\* earlier status.
C21_StatusMovesForward ==
  [][/\ \A p \in Owned(sessions', queue') :
          (\A o \in Owned(sessions, queue) :
             o.owner # p.owner \/ o.utterance.id # p.utterance.id)
            => p.utterance.status = "pending"
     /\ \A o \in Owned(sessions, queue), p \in Owned(sessions', queue') :
          (o.owner = p.owner /\ o.utterance.id = p.utterance.id)
            => \/ p.utterance.status = o.utterance.status
               \/ /\ o.utterance.status = "pending"
                  /\ p.utterance.status = "delivered"
                  /\ voiceInputActive
                  /\ DequeueOrWaitStep
               \/ /\ o.utterance.status = "delivered"
                  /\ p.utterance.status = "responded"
                  /\ \E text \in Texts : Speak(text)]_vars

C21_Witness ==
  /\ OwnedWith(sessions, queue, "responded") # {}
  /\ OwnedWith(sessions, queue, "delivered") # {}
  /\ last.op = "speak"
  /\ last.success

\* The ids of the registered sessions.
SessionIds(ss) == {ss[k].id : k \in 1..Len(ss)}

\* o's utterance is still in its queue with the same id, text and timestamp.
Kept(o) ==
  \E p \in Owned(sessions', queue') :
     /\ p.owner = o.owner
     /\ p.utterance.id = o.utterance.id
     /\ p.utterance.text = o.utterance.text
     /\ p.utterance.timestamp = o.utterance.timestamp

\* The step is the explicit clear of o's queue: DELETE /api/utterances for
\* the global queue, the session's utterances/clear for a session queue.
ClearsQueueOf(o) ==
  IF o.owner = <<"global">> THEN DeleteUtterances
  ELSE ClearSessionUtterances(o.owner)

\* C22, as stated: an utterance stays in its owning queue, with its id, text
\* and timestamp, in every step that is not the explicit clear of that queue.
C22_OnlyClearRemoves ==
  [][\A o \in Owned(sessions, queue) : Kept(o) \/ ClearsQueueOf(o)]_vars

\* C22, amended: an utterance stays in its owning queue, with its id, text
\* and timestamp, in every step that is neither the explicit clear of that
\* queue nor the removal of the session that owns the queue (by
\* DELETE /api/sessions/:sessionId or by the sweep of inactive sessions).
C22_OnlyClearOrSessionRemovalRemoves ==
  [][\A o \in Owned(sessions, queue) :
       \/ Kept(o)
       \/ ClearsQueueOf(o)
       \/ /\ o.owner \in SessionIds(sessions)
          /\ o.owner \notin SessionIds(sessions')
          /\ DeleteSession(o.owner) \/ Sweep]_vars

C22_Witness ==
  /\ last.op = "dequeue"
  /\ last.success
  /\ Len(last.utterances) > 1
  /\ Cardinality(Owned(sessions, queue)) > 1
  /\ OwnedWith(sessions, queue, "pending") = {}

\* C23: a session-registering request that carries no session-identifying
\* hint at all receives an id no registered session has, so it adds a
\* session: two such requests made back-to-back leave two distinct sessions.
C23_HintlessRequestsGetDistinctIds ==
  [][\A action \in {"tool", "speak", "wait", "stop", "post-tool"} :
       HookRequest(action, BareRequest)
         => /\ Len(sessions') = Len(sessions) + 1
            /\ SessionIds(sessions) # SessionIds(sessions')]_vars

\* C24: session resolution is deterministic on the hints. The id a request
\* resolves to does not depend on the time; an explicit session id wins
\* over every other hint; a request whose id names a registered session
\* refreshes that session (lastActivity is the current time, isActive is
\* true, its queue is kept) and leaves every other session and the number
\* of sessions as they were; otherwise it adds one session with that id.
C24_ResolutionIsDeterministic ==
  [][\A req \in Requests :
       \E id \in {GenerateSessionId(SessionDataOf(req), now)} :
          HookPreSpeak(req)
               => /\ \A time \in 1..MaxTime :
                       GenerateSessionId(SessionDataOf(req), time) = id
                  /\ req.session_id # None => id = req.session_id
                  /\ GenerateSessionId(
                       [SessionDataOf(req) EXCEPT !.sessionId = <<"b">>],
                       now) = <<"b">>
                  /\ id \in SessionIds(sessions')
                  /\ \A k \in 1..Len(sessions') :
                       sessions'[k].id = id
                         => /\ sessions'[k].lastActivity = now
                            /\ sessions'[k].isActive
                  /\ IF id \in SessionIds(sessions)
                     THEN /\ Len(sessions') = Len(sessions)
                          /\ \A k \in 1..Len(sessions) :
                               /\ sessions'[k].id = sessions[k].id
                               /\ sessions'[k].utteranceQueue
                                    = sessions[k].utteranceQueue
                               /\ sessions[k].id # id
                                    => sessions'[k] = sessions[k]
                     ELSE /\ Len(sessions') = Len(sessions) + 1
                          /\ SubSeq(sessions', 1, Len(sessions)) = sessions]_vars

C24_Witness ==
  /\ last.op = "hook"
  /\ \E k \in 1..Len(sessions) :
       /\ sessions[k].isActive
       /\ sessions[k].lastActivity = now
       /\ sessions[k].utteranceQueue # <<>>
       /\ \A i \in 1..Len(sessions[k].utteranceQueue) :
            sessions[k].utteranceQueue[i].timestamp < now

\* The number of utterances held by all queues.
UtteranceCount(ss, q) ==
  Len(q) + Cardinality(UNION {{<<k, i>> : i \in 1..Len(ss[k].utteranceQueue)} :
                                k \in 1..Len(ss)})

\* The queue POST /api/potential-utterances routes to: the session the
\* request's hints resolve to, else the active session, else the global
\* queue.
RoutedOwner(req) ==
  IF req.session_id # None \/ req.cwd # None \/ req.transcript_path # None
  THEN GenerateSessionId(SessionDataOf(req), now)
  ELSE IF HasActiveSession(sessions, activeSessionId) THEN activeSessionId
  ELSE <<"global">>

\* C25: POST /api/potential-utterances with a non-empty text adds exactly
\* one utterance, pending and with the trimmed text, to exactly one queue
\* (that of the session resolved from the hints, else the active session's,
\* else the global queue) and changes no utterance that was there; with a
\* text that is empty it fails and changes no queue and no session.
C25_PotentialUtteranceAddsOne ==
  [][\A req \in Requests, text \in Texts :
       /\ (last'.op = "potential-utterances" /\ last'.success
             /\ PotentialUtterance(req, text, NoTime))
            => /\ Trim(text) # <<>>
               /\ UtteranceCount(sessions', queue')
                    = UtteranceCount(sessions, queue) + 1
               /\ \E p \in Owned(sessions', queue') :
                    /\ p \notin Owned(sessions, queue)
                    /\ Owned(sessions', queue')
                         = Owned(sessions, queue) \cup {p}
                    /\ p.utterance.status = "pending"
                    /\ p.utterance.text = Trim(text)
                    /\ p.owner = RoutedOwner(req)
       /\ (Trim(text) = <<>> /\ last'.op = "potential-utterances"
             /\ PotentialUtteranceRejected(text))
            => /\ last'.op = "potential-utterances"
               /\ ~last'.success
               /\ sessions' = sessions
               /\ queue' = queue
               /\ activeSessionId' = activeSessionId]_vars

C25_Witness ==
  /\ last.op = "potential-utterances"
  /\ last.success
  /\ last.sessionId # NoSession
  /\ Len(queue) = 1
  /\ UtteranceCount(sessions, queue) = 2

\* C26: DELETE /api/utterances is a full clear: after it neither the global
\* queue nor any session's queue holds an utterance.
C26_DeleteUtterancesClearsEveryQueue ==
  [][DeleteUtterances => Owned(sessions', queue') = {}]_vars

\* C27: the two voice-preference flags change only in a preference-update
\* call or when the last open event stream closes, which sets both to
\* false; the close of a stream that is not the last one, and every hook,
\* dequeue, wait and speak, leave both as they were.
C27_PreferencesChangeOnlyByUpdateOrLastClose ==
  [][/\ (voiceResponsesEnabled' # voiceResponsesEnabled
           \/ voiceInputActive' # voiceInputActive)
          => \/ \E enabled \in BOOLEAN : SetVoicePreferences(enabled)
             \/ \E active \in BOOLEAN : SetVoiceInputState(active)
             \/ DisconnectTtsClient /\ ttsClients = 1
     /\ (DisconnectTtsClient /\ ttsClients = 1)
          => ~voiceResponsesEnabled' /\ ~voiceInputActive'
     /\ (DisconnectTtsClient /\ ttsClients > 1)
          => UNCHANGED <<voiceResponsesEnabled, voiceInputActive>>]_vars

C27_Witness ==
  /\ last.op = "tts-close"
  /\ last.remaining = 0
  /\ last.disabled
  /\ ~voiceResponsesEnabled
  /\ ~voiceInputActive
  /\ lastSpeakTimestamp # NoTime

\* C28: for every non-empty text and every queue state, add(text,
\* timestamp?) followed by getRecent(1) returns exactly the utterance just
\* added, with status pending.
C28_AddThenGetRecentReturnsAdded ==
  [][(last.op = "potential-utterances" /\ last.success /\ QueueGetRecent(1))
       => /\ Len(last'.recent) = 1
          /\ last'.recent[1].id = last.id
          /\ last'.recent[1].status = "pending"]_vars

\* The sessions of ss with isActive that no other such session beats on
\* lastActivity.
MostRecentActive(ss) ==
  {ss[k].id : k \in {k \in 1..Len(ss) :
                       /\ ss[k].isActive
                       /\ \A j \in 1..Len(ss) :
                            ss[j].isActive
                              => ss[j].lastActivity <= ss[k].lastActivity}}

\* C29: when the active session is marked inactive or removed, the active
\* pointer moves to the remaining session with isActive that has the most
\* recent lastActivity, or to null if there is none; when the session
\* marked or removed was not the active one, the pointer stays.
C29_ElectsMostRecentActive ==
  [][\A sessionId \in CallerIds :
       (DeleteSession(sessionId) \/ DeactivateSession(sessionId))
         => IF sessionId = activeSessionId
            THEN IF MostRecentActive(sessions') = {}
                 THEN activeSessionId' = NoSession
                 ELSE activeSessionId' \in MostRecentActive(sessions')
            ELSE activeSessionId' = activeSessionId]_vars

C29_Witness ==
  /\ last.op = "delete-session"
  /\ last.success
  /\ Len(sessions) = 2
  /\ sessions[1].isActive
  /\ sessions[2].isActive
  /\ sessions[2].lastActivity > sessions[1].lastActivity
  /\ activeSessionId = sessions[2].id

\* C30: a sweep removes exactly the sessions with isActive false whose
\* lastActivity is older than the inactivity threshold, and triggers one
\* change notification in all when it removes one or more sessions and none
\* when it removes no session.
C30_SweepRemovesStaleAndNotifiesOnce ==
  [][Sweep
       => /\ \A k \in 1..Len(sessions) :
               (\E j \in 1..Len(sessions') : sessions'[j] = sessions[k])
                 <=> ~(/\ ~sessions[k].isActive
                       /\ sessions[k].lastActivity < now - InactivityTicks)
          /\ SessionIds(sessions') \subseteq SessionIds(sessions)
          /\ last'.notifications = IF last'.removed > 0 THEN 1 ELSE 0]_vars

\* The text and timestamp of every utterance pending in any queue.
PendingEntries(ss, q) ==
  {[text |-> o.utterance.text, timestamp |-> o.utterance.timestamp] :
     o \in OwnedWith(ss, q, "pending")}

\* us lists each entry of the set once.
ListsEachOnce(us, entries) ==
  /\ Len(us) = Cardinality(entries)
  /\ {us[i] : i \in 1..Len(us)} = entries

\* C31: a successful dequeue returns exactly the utterances that were
\* pending in any session queue or the global queue at the call, each once,
\* newest first; the auto-delivery gate, when it delivers, quotes the same
\* set in its block message oldest first.
C31_DequeueReturnsPendingInOrder ==
  [][/\ (last'.op = "dequeue" /\ DequeueUtterances /\ last'.success)
          => /\ ListsEachOnce(last'.utterances, PendingEntries(sessions, queue))
             /\ \A i, j \in 1..Len(last'.utterances) :
                  i < j => last'.utterances[i].timestamp
                             >= last'.utterances[j].timestamp
     /\ \A action \in {"tool", "speak", "wait", "stop", "post-tool"} :
          (/\ PendingGateApplies(queue)
           /\ autoDeliver
           /\ ~SkipsAutoDelivery(action)
           /\ HookRequest(action, ExplicitRequest))
            => /\ last'.decision = "block"
               /\ last'.reason.kind = "voice-input"
               /\ \E us \in [1..Len(last'.reason.texts)
                               -> PendingEntries(sessions, queue)] :
                    /\ ListsEachOnce(us, PendingEntries(sessions, queue))
                    /\ \A i \in 1..Len(us) : us[i].text = last'.reason.texts[i]
                    /\ \A i, j \in 1..Len(us) :
                         i < j => us[i].timestamp <= us[j].timestamp]_vars

\* The gate has just quoted two utterances, of which the older one was read
\* from the global queue and the newer one from the session's queue.
C31_Witness ==
  /\ last.op = "hook"
  /\ last.via = "gates"
  /\ last.decision = "block"
  /\ last.reason.kind = "voice-input"
  /\ Len(last.reason.texts) = 2
  /\ Len(queue) = 1
  /\ \E k \in 1..Len(sessions) :
       /\ Len(sessions[k].utteranceQueue) = 1
       /\ queue[1].timestamp < sessions[k].utteranceQueue[1].timestamp
       /\ last.reason.texts = <<queue[1].text, sessions[k].utteranceQueue[1].text>>

\* C32: within one waitForUtteranceCore call the notification sound is
\* played at most once, and exactly when the call's first iteration finds
\* voice input active and no pending utterance: it is played in the turn
\* that puts a new call to sleep and in no other turn (the clock's ticks
\* are no turns), and a call whose first iteration finds utterances, or
\* whose precondition fails, plays none.
C32_NotificationSoundOncePerWait ==
  [][/\ ~Tick
          => /\ (\E i \in 1..Len(emitted') : emitted'[i] = NotificationSound)
                  <=> SleepingCalls(waits') \ SleepingCalls(waits) # {}
             /\ Cardinality({i \in 1..Len(emitted') :
                               emitted'[i] = NotificationSound}) <= 1
     /\ WaitForUtterances
          => ((\E i \in 1..Len(emitted') : emitted'[i] = NotificationSound)
                <=> (voiceInputActive /\ ~AnyPending(sessions, queue)))]_vars

\* A call that played the sound in its first turn has polled again, found
\* nothing, and sleeps on without a second sound.
C32_Witness ==
  /\ last.op = "suspended"
  /\ emitted = <<>>
  /\ \E w \in WaitIds : waits[w].pc = "sleeping" /\ waits[w].sleptAt > waits[w].startTime

\* The last successful speak is not older than the last recorded tool use.
SpokeSinceToolUse ==
  /\ lastSpeakTimestamp # NoTime
  /\ lastSpeakTimestamp >= lastToolUseTimestamp

MustSpeakReasons == {"speak-before-wait", "speak-before-stop"}

\* A pre-wait or stop attempt made when SpokeSinceToolUse holds is not
\* blocked by the must-speak-after-tool rule.
NoMustSpeakBlockAfterSpeak ==
  \A action \in {"wait", "stop"} :
    (SpokeSinceToolUse /\ HookRequest(action, ExplicitRequest))
      => ~(/\ last'.op = "hook"
           /\ last'.decision = "block"
           /\ last'.reason.kind \in MustSpeakReasons)

\* C33 as written: a successful speak leaves the speak not older than the
\* last tool use, every turn other than a tool-invocation keeps it so
\* (post-tool-invocation hooks included), and while it is so no pre-wait or
\* stop attempt is blocked by the must-speak-after-tool rule.
C33_SpeakLiftsRuleUntilNextTool ==
  [][/\ Speak(<<"x">>) => SpokeSinceToolUse'
     /\ (SpokeSinceToolUse /\ ~HookPreTool(ExplicitRequest))
          => SpokeSinceToolUse'
     /\ NoMustSpeakBlockAfterSpeak]_vars

\* C33 amended: a successful speak leaves the speak not older than the last
\* tool use, every turn other than a tool-invocation or post-tool-invocation
\* hook keeps it so, and while it is so no pre-wait or stop attempt is
\* blocked by the must-speak-after-tool rule.
C33_SpeakLiftsRuleUntilNextToolOrPostTool ==
  [][/\ Speak(<<"x">>) => SpokeSinceToolUse'
     /\ (/\ SpokeSinceToolUse
         /\ ~HookPreTool(ExplicitRequest)
         /\ ~HookPostTool(ExplicitRequest))
          => SpokeSinceToolUse'
     /\ NoMustSpeakBlockAfterSpeak]_vars

\* A pre-wait was approved with voice responses on, after a tool use and a
\* speak at a later tick.
C33_Witness ==
  /\ last.op = "hook"
  /\ last.action = "wait"
  /\ last.decision = "approve"
  /\ voiceResponsesEnabled
  /\ lastToolUseTimestamp # NoTime
  /\ lastSpeakTimestamp > lastToolUseTimestamp

\* The texts of the utterances a response hands to the assistant.
ResultTexts(l) ==
  IF l.op = "dequeue" /\ l.success THEN TextsOf(l.utterances)
  ELSE IF l.op = "hook" /\ l.reason.kind = "voice-input" THEN l.reason.texts
  ELSE IF l.op = "wait" /\ l.result.success THEN TextsOf(l.result.utterances)
  ELSE <<>>

\* C34: at-most-once delivery across any interleaving of dequeues,
\* auto-delivering hooks and concurrently running waits: every utterance a
\* response hands out was pending when that turn began and is delivered when
\* it ends, no response lists an utterance twice, and no utterance ever
\* returns to pending, so that no second response can contain it.
C34_AtMostOnceDelivery ==
  [][~Tick
       => /\ \A i \in 1..Len(ResultTexts(last')) :
               \E o \in OwnedWith(sessions, queue, "pending") :
                  /\ o.utterance.text = ResultTexts(last')[i]
                  /\ Moved(o, "delivered") \in Owned(sessions', queue')
          /\ \A i, j \in 1..Len(ResultTexts(last')) :
               i # j => ResultTexts(last')[i] # ResultTexts(last')[j]
          /\ \A o \in Owned(sessions, queue) :
               \A p \in OwnedWith(sessions', queue', "pending") :
                  (o.owner = p.owner /\ o.utterance.id = p.utterance.id)
                    => o.utterance.status = "pending"]_vars

\* Two waits are asleep at once, after a response that handed out an
\* utterance.
C34_Witness ==
  /\ Cardinality(SleepingCalls(waits)) = 2
  /\ AnyDelivered(sessions, queue)
  /\ AnyPending(sessions, queue)

\* C35: when a stop attempt is approved because its auto-wait timed out
\* with voice input still active, no queue holds a pending utterance at the
\* moment the approve verdict is returned.
C35_StopTimeoutLeavesNothingPending ==
  [][\A w \in WaitIds :
       (/\ waits[w].pc = "sleeping"
        /\ waits[w].origin = "stop"
        /\ voiceInputActive
        /\ WaitPoll(w)
        /\ last'.op = "hook"
        /\ last'.decision = "approve"
        /\ last'.reason.kind = "timed-out")
         => ~AnyPending(sessions', queue')]_vars

\* C36: whenever a waitForUtteranceCore call is in progress the wait-status
\* message emitted last says true, and whenever none is in progress the one
\* emitted last, if any, says false: a turn that emits wait-status messages
\* ends with the one that tells whether a call is left in progress, and a
\* turn that emits none leaves that unchanged.
C36_WaitStatusTracksWaits ==
  [][~Tick
       => \E flags \in {WaitStatusFlags(emitted')} :
             /\ flags # <<>>
                  => flags[Len(flags)] = (SleepingCalls(waits') # {})
             /\ flags = <<>>
                  => (SleepingCalls(waits') # {}) = (SleepingCalls(waits) # {})]_vars

\* C37: after a successful speak no utterance of any queue, session queues
\* and global queue alike, is left delivered; the utterances of the session
\* the speak message is attributed to are responded.
C37_SpeakRespondsEveryQueue ==
  [][\A text \in Texts :
       Speak(text)
         => /\ ~AnyDelivered(sessions', queue')
            /\ \A o \in OwnedWith(sessions, queue, "delivered") :
                 Moved(o, "responded") \in Owned(sessions', queue')]_vars

\* C38: the pre-speak hook broadcasts its speak event only when the attempt
\* is approved; an attempt the decision engine blocks broadcasts none.
C38_SpeakEventOnlyWhenApproved ==
  [][(HookPreSpeak(ExplicitRequest) /\ last'.decision = "block")
       => \A i \in 1..Len(emitted') : emitted'[i].type # "speak"]_vars

\* C39: whenever a registered session has isActive the active-session
\* pointer is not null.
C39_ActiveSessionWheneverEligible ==
  (\E k \in 1..Len(sessions) : sessions[k].isActive)
    => activeSessionId # NoSession

\* C40: the delivered-but-unresponded gate cannot block forever: a
\* successful speak leaves no delivered utterance for gate 2 to see, none
\* appears again unless a turn delivers an utterance, and while there is
\* none no action is blocked with gate 2's reason.
C40_SpeakOpensDeliveredGate ==
  [][/\ Speak(<<"x">>) => ~DeliveredGateApplies(queue')
     /\ (DeliveredIn(queue) = <<>> /\ DeliveredIn(queue') # <<>>)
          => DeliveredByStep # {}
     /\ \A action \in {"tool", "speak", "wait", "stop", "post-tool"} :
          (DeliveredIn(queue) = <<>> /\ HookRequest(action, ExplicitRequest))
            => ~(/\ last'.op = "hook"
                 /\ last'.decision = "block"
                 /\ last'.reason.kind = "respond-first")]_vars

\* A tool attempt is approved with voice responses on, after a speak has
\* answered the utterance that gate 2 was holding it for.
C40_Witness ==
  /\ last.op = "hook"
  /\ last.action = "tool"
  /\ last.decision = "approve"
  /\ voiceResponsesEnabled
  /\ lastSpeakTimestamp # NoTime
  /\ \E i \in 1..Len(queue) : queue[i].status = "responded"
====
